---- MODULE Spec2Model ----
(***************************************************************************)
(* A model of the polyphonic synthesizer of src/src: the ADSR envelope     *)
(* (adsr.py) and the voice management and audio callback of Synthesizer    *)
(* (synthesizer.py), with the parts of the oscillator, the filter and the  *)
(* event handler that decide what a voice contributes to a buffer.         *)
(*                                                                         *)
(* Numbers.  Envelope levels are fixed-point: a level x is the integer     *)
(* x * Scale, and a quotient is rounded down.  Time is counted in samples: *)
(* time_step = samples / sample_rate of adsr.py is the integer `samples',  *)
(* and a duration of s seconds is the integer s * sample_rate.             *)
(***************************************************************************)
EXTENDS Integers, Sequences, FiniteSets, TLC

Min(a, b) == IF a <= b THEN a ELSE b

Max(a, b) == IF a >= b THEN a ELSE b

\* ------------------------------------------------------------- bounds

\* One unit of level: 1.0 is Scale.
Scale == 100
\* ADSR unit: attack, decay and release are drawn from 1..MaxStage samples.
MaxStage == 5
\* ADSR unit: a buffer holds 2..MaxSamples samples.
MaxSamples == 3

\* Synthesizer.max_voices is 16 (synthesizer.py:77); the model keeps the cap
\* small so that a handful of notes reaches it.
max_voices == 2
\* MIDI notes 0..127 are the notes 1..NumNotes.
NumNotes == 3
\* event_queue is unbounded and never read: a run stops issuing note events
\* once it holds MaxQueue of them.
MaxQueue == 4
\* Synthesizer.sample_rate is 44100 and buffer_size 256 (synthesizer.py:47-48);
\* the model counts sample_rate samples to the second and buffer_size samples
\* to the callback, so that a default stage of 0.1 s lasts one callback.
sample_rate == 20
buffer_size == 2
\* Delay._delay_samples and Delay._buffer_size, scaled down
delay_samples == 2
delay_buffer_size == 4
\* the length of the sample stream given to the Delay unit
MaxStream == 6
\* chain unit: a chain holds up to MaxChain modules
MaxChain == 2

\* A time no stage of the model lasts.
TimeCap == Max(MaxStage, sample_rate \div 10) + 1

\* -------------------------------------------------------------- ADSR

Stages == {"off", "attack", "decay", "sustain", "release"}

\* ADSR.__init__ with the four parameters given (the defaults are set below).
ADSR_new(attack, decay, sustain, release) ==
    [attack |-> attack, decay |-> decay, sustain |-> sustain, release |-> release,
     current_level |-> 0, current_state |-> "off", time_in_state |-> 0]

ADSR_note_on(a) == [a EXCEPT !.current_state = "attack", !.time_in_state = 0]

ADSR_note_off(a) == [a EXCEPT !.current_state = "release", !.time_in_state = 0]

\* The sum with the time step counted twice.
Elapse_twice(t, samples) == Min(t + 2 * samples, TimeCap)

\* time_in_state += time_step.  Nothing reads a time above every stage length,
\* so the sum saturates at TimeCap (the sustain stage would count for ever).
Elapse(t, samples) == Min(t + samples, TimeCap)

\* A float division x / d.  With d = 0 Python raises ZeroDivisionError: the
\* result is then ZeroDivision, a number that no level of the model takes.
ZeroDivision == 0 - 2000000

Quotient(x, d) == IF d = 0 THEN ZeroDivision ELSE x \div d

\* The comparison with stage lengths of zero and below never at their end.
StageOver_positive(t, duration) == duration > 0 /\ t >= duration

\* The comparison that ends a stage: time_in_state >= duration.
StageOver_gt(t, duration) == t > duration

StageOver(t, duration) == t >= duration

\* The attack ramp time_in_state / attack.
AttackLevel(a, t) == Quotient(t * Scale, a.attack)

\* 1.0 - (1.0 - sustain) * decay_progress
DecayLevel_plus(a, t) == Scale + Quotient((Scale - a.sustain) * t, a.decay)

DecayLevel(a, t) == Scale - Quotient((Scale - a.sustain) * t, a.decay)

\* sustain * (1.0 - time_in_state / release)
ReleaseLevel(a, t) == Quotient(a.sustain * (a.release - t), a.release)

\* ADSR.get_next_value(samples): the new object and the value returned.
ADSR_get_next_value(a, samples) ==
    IF a.current_state = "off" THEN [adsr |-> a, value |-> 0]
    ELSE
      LET t == Elapse(a.time_in_state, samples)
          b == [a EXCEPT !.time_in_state = t]
      IN  CASE a.current_state = "attack" ->
                 IF StageOver(t, a.attack)
                 THEN [adsr |-> [b EXCEPT !.current_state = "decay", !.time_in_state = 0],
                       value |-> Scale]
                 ELSE [adsr |-> b, value |-> AttackLevel(a, t)]
            [] a.current_state = "decay" ->
                 IF StageOver(t, a.decay)
                 THEN [adsr |-> [b EXCEPT !.current_state = "sustain"], value |-> a.sustain]
                 ELSE [adsr |-> b, value |-> DecayLevel(a, t)]
            [] a.current_state = "sustain" -> [adsr |-> b, value |-> a.sustain]
            [] a.current_state = "release" ->
                 IF StageOver(t, a.release)
                 THEN [adsr |-> [b EXCEPT !.current_state = "off"], value |-> 0]
                 ELSE [adsr |-> b, value |-> ReleaseLevel(a, t)]

\* np.linspace(start, stop, num): num = 1 gives [start]; otherwise the last
\* sample is stop itself.
Linspace(start, stop, num) ==
    [i \in 1..num |->
        IF num = 1 THEN start
        ELSE IF i = num THEN stop
        ELSE start + (((stop - start) * (i - 1)) \div (num - 1))]

\* ADSR.apply_envelope(signal, note_on, note_off) for len(signal) = samples >= 1:
\* the new object, the value get_next_value returned and the gain of each sample.
ADSR_apply_envelope(a, samples, note_on, note_off) ==
    LET a1  == IF note_on THEN ADSR_note_on(a)
               ELSE IF note_off THEN ADSR_note_off(a) ELSE a
        r   == ADSR_get_next_value(a1, samples)
        env == Linspace(a1.current_level, r.value, samples)
    IN  [adsr |-> [r.adsr EXCEPT !.current_level = env[samples]],
         value |-> r.value, envelope |-> env]

\* A float that may be a NaN is an integer or NaN, a number that no
\* computation of the model produces.
NaN == 0 - 1000000

IsNaN(x) == x = NaN

\* ---------------------------------------------------------- samples
(***************************************************************************)
(* A sample of a signal is known by its class: "zero" (exactly 0.0),       *)
(* "unit" (finite, within [-1, 1]), "finite" (finite, of any magnitude),   *)
(* "inf" or "nan".  The operators below give the class IEEE arithmetic     *)
(* and numpy produce from the classes of the operands.                     *)
(***************************************************************************)
SampleClasses == {"zero", "unit", "finite", "inf", "nan"}

Zeros(n) == [i \in 1..n |-> "zero"]

\* x + y, x - y
AddClass(x, y) ==
    IF x = "nan" \/ y = "nan" THEN "nan"
    ELSE IF x = "inf" /\ y = "inf" THEN "nan"
    ELSE IF x = "inf" \/ y = "inf" THEN "inf"
    ELSE IF x = "zero" THEN y
    ELSE IF y = "zero" THEN x
    ELSE "finite"

\* x * g for a gain g with 0 <= g <= 1, given as a level
MulLevel(x, g) ==
    IF x = "nan" THEN "nan"
    ELSE IF x = "inf" THEN (IF g = 0 THEN "nan" ELSE "inf")
    ELSE IF g = 0 THEN "zero"
    ELSE x

\* np.clip(x, -1.0, 1.0): a NaN stays a NaN
ClipUnit(x) ==
    IF x = "nan" THEN "nan"
    ELSE IF x = "zero" THEN "zero"
    ELSE "unit"

IsNanClass(x) == x = "nan"

IsInfClass(x) == x = "inf"

\* ------------------------------------------------------------ dicts
(***************************************************************************)
(* A Python dict is the sequence of its [key, val] entries in insertion    *)
(* order: a store under a key it holds keeps the key's place.              *)
(***************************************************************************)
Keys(d) == {d[i].key : i \in DOMAIN d}

HasKey(d, k) == k \in Keys(d)

Lookup(d, k) == d[CHOOSE i \in DOMAIN d : d[i].key = k].val

Put(d, k, v) ==
    IF HasKey(d, k)
    THEN [i \in DOMAIN d |-> IF d[i].key = k THEN [key |-> k, val |-> v] ELSE d[i]]
    ELSE Append(d, [key |-> k, val |-> v])

KeyIsNot(e, k) == e.key # k

Pop(d, k) == SelectSeq(d, LAMBDA e : KeyIsNot(e, k))

\* ------------------------------------------------------- oscillator

WaveTypes == {"sine", "saw", "triangle", "pulse"}

\* A mix level and a detune value are kept as the numerator over 127.
Oscillator_new ==
    [mix_levels    |-> [k \in WaveTypes |-> IF k = "sine" THEN 127 ELSE 0],
     detune_values |-> [k \in WaveTypes |-> 0]]

\* level > 0, which is false of a NaN
Positive(x) == ~IsNaN(x) /\ x > 0

\* Oscillator.set_mix_level(osc_type, value): mix_levels[osc_type] = value / 127.0
set_mix_level(osc, osc_type, value) ==
    [osc EXCEPT !.mix_levels =
        [k \in DOMAIN osc.mix_levels \cup {osc_type} |->
            IF k = osc_type THEN value ELSE osc.mix_levels[k]]]

\* Oscillator.set_detune(osc_type, value): value / 127.0 * 2.0 - 1.0
set_detune(osc, osc_type, value) ==
    [osc EXCEPT !.detune_values =
        [k \in DOMAIN osc.detune_values \cup {osc_type} |->
            IF k = osc_type
            THEN (IF IsNaN(value) THEN NaN ELSE 2 * value - 127)
            ELSE osc.detune_values[k]]]

ActiveWaves(osc) == {k \in DOMAIN osc.mix_levels : Positive(osc.mix_levels[k])}

\* Oscillator.generate raises KeyError at detune_values[wave_type] for an
\* active wave that has no detune entry.
GenerateRaises(osc) == \E k \in ActiveWaves(osc) : k \notin DOMAIN osc.detune_values

\* Oscillator.generate when it does not raise: the zero buffer without active
\* waves, else the weighted sum of the waveforms.
Generate(osc, n) ==
    [i \in 1..n |-> IF ActiveWaves(osc) = {} THEN "zero" ELSE "finite"]

\* ----------------------------------------------------------- filter

\* cutoff_freq in Hz, resonance in thousandths; coef is the class of the
\* coefficients a1, b0, b1.
LowPassFilter_new == [cutoff_freq |-> 1000, resonance |-> 500, coef |-> "finite"]

\* np.clip(value, lo, hi): a NaN stays a NaN
ClipNum(value, lo, hi) ==
    IF IsNaN(value) THEN NaN ELSE Max(lo, Min(hi, value))

\* LowPassFilter._update_coefficients: no operation on a NaN raises, so the
\* except branch is not taken; _prev_cutoff is set since __init__, so the new
\* coefficients are smoothed from the old ones, and a NaN among the old ones or
\* the new ones gives NaN.
update_coefficients(f) ==
    [f EXCEPT !.coef = IF IsNaN(f.cutoff_freq) \/ IsNaN(f.resonance) \/ f.coef = "nan"
                       THEN "nan" ELSE "finite"]

set_cutoff_freq(f, value) ==
    update_coefficients([f EXCEPT !.cutoff_freq = ClipNum(value, 20, 22050)])

set_resonance(f, value) ==
    update_coefficients([f EXCEPT !.resonance = ClipNum(value, 100, 10000)])

\* LowPassFilter.apply_filter: each output sample is clipped to [-1, 1]; with
\* NaN coefficients every sample is NaN.
apply_filter(f, signal) ==
    [i \in DOMAIN signal |-> IF f.coef = "nan" \/ signal[i] = "nan" THEN "nan" ELSE "unit"]

\* ------------------------------------------------------------ voice

ADSR_default ==
    ADSR_new(sample_rate \div 10, sample_rate \div 10, (7 * Scale) \div 10, sample_rate \div 10)

\* The identity of an object: its class and its number among the objects of
\* the class, in the order of their construction.
Obj(class, n) == [class |-> class, n |-> n]

\* Synthesizer.__init__ constructs the engine's filter and ADSR before any
\* voice exists; the filter module of the voice chain template refers to the
\* engine's filter.
EngineFilter == Obj("LowPassFilter", 0)

EngineADSR == Obj("ADSR", 0)

\* The chain of a voice built with the filter module of the template as it is.
ChainFilter_template(own, template) == template

\* Voice._create_chain: the filter module of the template is replaced by
\* FilterModule(self.filter).
ChainFilter(own, template) == own

\* Voice.__init__: an ADSR and a LowPassFilter of its own, both as their
\* constructors make them (the id-th of their classes), and a chain made from
\* the template.
Voice_new(id, now) ==
    [id |-> id, note_on_time |-> now, release_triggered |-> FALSE,
     adsr |-> ADSR_default, filter |-> LowPassFilter_new,
     adsr_obj |-> Obj("ADSR", id), filter_obj |-> Obj("LowPassFilter", id),
     chain_filter |-> ChainFilter(Obj("LowPassFilter", id), EngineFilter)]

is_finished(v) == v.release_triggered /\ v.adsr.current_state = "off"

\* ------------------------------------------------------- the engine

VARIABLES
    active_voices,    \* Synthesizer.active_voices: dict note -> Voice
    released_voices,  \* Synthesizer.released_voices: dict note -> Voice
    event_queue,      \* Synthesizer.event_queue, as the number of events it holds
                      \* (no code of src gets from the queue)
    oscillator,       \* Synthesizer.oscillator
    filter,           \* Synthesizer.filter
    adsr,             \* Synthesizer.adsr
    effects,          \* Synthesizer.effects: name -> [wet, dry]
    dc_block,         \* Synthesizer.dc_block: [x1, y1], the classes of its state
    temp_buffer,      \* temp_buffer of the last audio_callback, as it stood before
                      \* the test for NaN and Inf
    outdata,          \* the buffer the last audio_callback filled
    clock,            \* time.time() at the last note_on: the clock advances
                      \* between two calls of note_on
    next_id,          \* the number of Voice objects made so far, plus one
    u_adsr,           \* ADSR unit: one ADSR object
    u_value,          \* what its last get_next_value returned
    u_envelope,       \* the gains its last apply_envelope multiplied into the signal
    u_last,           \* its last trigger: "none", "note_on" or "note_off"
    u_from,           \* the stage it was in when that trigger was called
    u_elapsed,        \* samples advanced since its last note_off (saturating)
    cb_stages,        \* the stages the last audio_callback passed temp_buffer through
    cb_pc,            \* audio thread: where its audio_callback stands ("idle" outside)
    cb_i,             \* audio thread: the index of its loop over the voices
    cb_buffer,        \* audio thread: temp_buffer of the callback in progress
    cb_done,          \* audio thread: released_done of the callback in progress
    cb_seen,          \* audio thread: the oscillator settings its generate calls read
    fx_signal,        \* Effect unit: the buffer given to process
    fx_wet_signal,    \* Effect unit: what _process_effect returns for it
    fx_wet,           \* Effect unit: wet, in 127ths
    fx_dry,           \* Effect unit: dry, in 127ths
    fx_out,           \* Effect unit: what process returned, in 127ths of a sample
                      \* step (empty before the call)
    fx_enabled,       \* Effect unit: AudioModule.enabled
    fx_bypass,        \* Effect unit: AudioModule.bypass
    cb_snapshot,      \* audio thread: list(self.active_voices.values()), as voice ids
    cb_len,           \* audio thread: len(released_voices) when its iteration began
    running,          \* Synthesizer.running
    midi_running,     \* MIDIHandler.running
    stream_active,    \* Synthesizer.stream has been started and not stopped
    exited,           \* the interpreter has exited (sys.exit)
    dl_buffer,        \* Delay unit: Delay._buffer
    dl_write_pos,     \* Delay unit: Delay._write_pos (0-based)
    dl_in,            \* Delay unit: all the samples given to it so far
    dl_out,           \* Delay unit: all the samples _process_effect returned so far
    ch_chain,         \* chain unit: AudioChainHandler.chain, [name, enabled, bypass]
    ch_raising,       \* chain unit: the positions whose module raised in the last call
    ch_out,           \* chain unit: what the last call returned
    lp_filter,        \* filter unit: a LowPassFilter, its coefficients as numbers
    lp_updates,       \* filter unit: the calls made on it so far
    lk_owner,         \* lock unit: the thread that holds each lock, or "free"
    lk_pc,            \* lock unit: where each thread is in the handler it runs
    lk_voices,        \* lock unit: len(active_voices)
    lk_ops,           \* lock unit: the handlers the control thread has called
    cu_reverb,        \* cursor unit: Reverb._delay_indexes
    cu_flanger,       \* cursor unit: Flanger._pos
    cu_chorus,        \* cursor unit: Chorus._positions
    cu_reads,         \* cursor unit: the positions the last call could read at
    cu_last           \* cursor unit: the last call, [effect, len] (len(signal))

engine_vars == <<active_voices, released_voices, event_queue, oscillator, filter,
                 adsr, effects, dc_block, temp_buffer, outdata, clock, next_id>>

unit_vars == <<u_adsr, u_value, u_envelope, u_last, u_from, u_elapsed>>

cb_vars == <<cb_stages, cb_pc, cb_i, cb_buffer, cb_done, cb_seen, cb_snapshot, cb_len>>

life_vars == <<running, midi_running, stream_active, exited>>

delay_vars == <<dl_buffer, dl_write_pos, dl_in, dl_out>>

chain_vars == <<ch_chain, ch_raising, ch_out>>

fx_vars == <<fx_signal, fx_wet_signal, fx_wet, fx_dry, fx_out, fx_enabled, fx_bypass>>

lp_vars == <<lp_filter, lp_updates>>

lock_vars == <<lk_owner, lk_pc, lk_voices, lk_ops>>

cursor_vars == <<cu_reverb, cu_flanger, cu_chorus, cu_reads, cu_last>>

\* The variables of the filter, of the locks and of the cursors taken alone.
dsp_vars == <<lp_vars, lock_vars, cursor_vars>>

\* The variables of the units taken alone.
bench_vars == <<unit_vars, fx_vars, delay_vars, chain_vars, dsp_vars>>

vars == <<engine_vars, cb_vars, life_vars, bench_vars>>

Notes == 1..NumNotes

EffectNames == {"reverb", "distortion", "delay", "flanger", "chorus"}

\* Synthesizer.__init__; Effect.__init__ sets wet = 1.0 and dry = 0.0 (in 127ths).
EngineInit ==
    /\ active_voices = << >>
    /\ released_voices = << >>
    /\ event_queue = 0
    /\ oscillator = Oscillator_new
    /\ filter = LowPassFilter_new
    /\ adsr = ADSR_default
    /\ effects = [e \in EffectNames |-> [wet |-> 127, dry |-> 0]]
    /\ dc_block = [x1 |-> "zero", y1 |-> "zero"]
    /\ temp_buffer = Zeros(buffer_size)
    /\ outdata = Zeros(buffer_size)
    /\ clock = 0
    /\ next_id = 1
    /\ running = TRUE
    /\ midi_running = TRUE
    /\ stream_active = TRUE
    /\ exited = FALSE
    /\ cb_stages = << >>
    /\ cb_pc = "idle"
    /\ cb_i = 0
    /\ cb_buffer = << >>
    /\ cb_done = {}
    /\ cb_seen = {}
    /\ cb_snapshot = << >>
    /\ cb_len = 0

\* len(self.active_voices) >= self.max_voices
AtCapacity_gt(av) == Len(av) > max_voices

AtCapacity(av) == Len(av) >= max_voices

\* min(active_voices.keys(), key = note_on_time): the first key, in dict order,
\* among those of the smallest note_on_time.
OldestNote(av) ==
    LET i == CHOOSE i \in DOMAIN av :
                 /\ \A j \in DOMAIN av : av[j].val.note_on_time >= av[i].val.note_on_time
                 /\ \A j \in 1..(i - 1) : av[j].val.note_on_time > av[i].val.note_on_time
    IN  av[i].key

\* What note_off does to a voice it moves.
ReleaseVoice_untriggered(v) == [v EXCEPT !.adsr = ADSR_note_off(v.adsr)]

ReleaseVoice(v) == [v EXCEPT !.release_triggered = TRUE, !.adsr = ADSR_note_off(v.adsr)]

\* note_off with a releasing voice of the note dropped when the note is not
\* active.
NoteOff_forget(m, note) ==
    LET q == m.queue + 1
    IN  IF HasKey(m.active, note)
        THEN [active   |-> Pop(m.active, note),
              released |-> Put(m.released, note, ReleaseVoice(Lookup(m.active, note))),
              queue    |-> q]
        ELSE [m EXCEPT !.queue = q, !.released = Pop(m.released, note)]

\* Synthesizer.note_off(note) on the two dicts and the queue.
NoteOff(m, note) ==
    LET q == m.queue + 1
    IN  IF HasKey(m.active, note)
        THEN [active   |-> Pop(m.active, note),
              released |-> Put(m.released, note, ReleaseVoice(Lookup(m.active, note))),
              queue    |-> q]
        ELSE [m EXCEPT !.queue = q]

\* note_on with the note's note_off applied in the same call.
NoteOn_released(m, note, id, now) ==
    LET voice == [Voice_new(id, now) EXCEPT !.adsr = ADSR_note_on(@)]
    IN  NoteOff([active   |-> Put(m.active, note, voice),
                 released |-> m.released,
                 queue    |-> m.queue + 1], note)

\* Synthesizer.note_on(note) on the two dicts and the queue, with the value
\* `now' of time.time() and the new voice's identity.
NoteOn(m, note, id, now) ==
    LET m1 == IF AtCapacity(m.active) THEN NoteOff(m, OldestNote(m.active)) ELSE m
        voice == [Voice_new(id, now) EXCEPT !.adsr = ADSR_note_on(@)]
    IN  [active   |-> Put(m1.active, note, voice),
         released |-> m1.released,
         queue    |-> m1.queue + 1]

Maps == [active |-> active_voices, released |-> released_voices, queue |-> event_queue]

SetMaps(m) ==
    /\ active_voices' = m.active
    /\ released_voices' = m.released
    /\ event_queue' = m.queue

note_on(note) ==
    /\ event_queue + 2 <= MaxQueue
    /\ SetMaps(NoteOn(Maps, note, next_id, clock + 1))
    /\ clock' = clock + 1
    /\ next_id' = next_id + 1
    /\ UNCHANGED <<oscillator, filter, adsr, effects, dc_block, temp_buffer, outdata,
                   cb_vars, life_vars, bench_vars>>

note_off(note) ==
    /\ event_queue + 1 <= MaxQueue
    /\ SetMaps(NoteOff(Maps, note))
    /\ UNCHANGED <<oscillator, filter, adsr, effects, dc_block, temp_buffer, outdata,
                   clock, next_id, cb_vars, life_vars, bench_vars>>

\* --------------------------------------------------- control changes

OscMixControls == {14, 15, 16, 17}

OscDetuneControls == {26, 27, 28, 29}

\* cc_to_osc
OscTypeOf(control) ==
    CASE control \in {14, 26} -> "sine"
      [] control \in {15, 27} -> "saw"
      [] control \in {16, 28} -> "triangle"
      [] control \in {17, 29} -> "pulse"

\* effect_ccs
EffectOf(control) ==
    CASE control = 102 -> "reverb"
      [] control = 103 -> "distortion"
      [] control = 104 -> "delay"
      [] control = 105 -> "flanger"
      [] control = 106 -> "chorus"

\* 20.0 * exp(log(1000) * value / 127.0) in Hz, rounded, for the values the
\* model draws.
CutoffOfCC(value) ==
    CASE IsNaN(value) -> NaN
      [] value = 0    -> 20
      [] value = 64   -> 650
      [] value = 127  -> 20000

\* 0.1 + 9.9 * value / 127.0 in thousandths
ResonanceOfCC(value) ==
    IF IsNaN(value) THEN NaN ELSE 100 + ((9900 * value) \div 127)

\* value / 127.0 seconds, in samples
SecondsOfCC(value) ==
    IF IsNaN(value) THEN NaN ELSE (value * sample_rate) \div 127

\* value / 127.0 as a level
LevelOfCC(value) ==
    IF IsNaN(value) THEN NaN ELSE (value * Scale) \div 127

\* Synthesizer.adsr_control_change
adsr_control_change(a, control, value) ==
    CASE control = 18 -> [a EXCEPT !.attack = SecondsOfCC(value)]
      [] control = 19 -> [a EXCEPT !.sustain = LevelOfCC(value)]
      [] control = 20 -> [a EXCEPT !.decay = SecondsOfCC(value)]
      [] control = 21 -> [a EXCEPT !.release = SecondsOfCC(value)]

\* The loops over the voices left out.
SetVoiceCutoffs_none(d, cutoff) == d

\* `for voice in voices.values(): voice.filter.<set>(value)'
SetVoiceCutoffs(d, cutoff) ==
    [i \in DOMAIN d |-> [d[i] EXCEPT !.val.filter = set_cutoff_freq(@, cutoff)]]

SetVoiceResonances(d, resonance) ==
    [i \in DOMAIN d |-> [d[i] EXCEPT !.val.filter = set_resonance(@, resonance)]]

\* The parameter state control_change works on.
Params ==
    [oscillator |-> oscillator, filter |-> filter, adsr |-> adsr, effects |-> effects,
     active |-> active_voices, released |-> released_voices]

SetParams(p) ==
    /\ oscillator' = p.oscillator
    /\ filter' = p.filter
    /\ adsr' = p.adsr
    /\ effects' = p.effects
    /\ active_voices' = p.active
    /\ released_voices' = p.released

\* Synthesizer.control_change(control, value).  The print_* calls change no
\* state; print_effect_values is not defined in synthesizer.py, and the
\* NameError it raises after wet and dry are set is caught at line 187.
ControlChange(p, control, value) ==
    LET p1 ==
          IF control \in OscMixControls
          THEN [p EXCEPT !.oscillator = set_mix_level(@, OscTypeOf(control), value)]
          ELSE IF control \in OscDetuneControls
          THEN [p EXCEPT !.oscillator = set_detune(@, OscTypeOf(control), value)]
          ELSE IF control = 22
          THEN [p EXCEPT !.filter = set_cutoff_freq(@, CutoffOfCC(value)),
                         !.active = SetVoiceCutoffs(@, CutoffOfCC(value)),
                         !.released = SetVoiceCutoffs(@, CutoffOfCC(value))]
          ELSE IF control = 23
          THEN [p EXCEPT !.filter = set_resonance(@, ResonanceOfCC(value)),
                         !.active = SetVoiceResonances(@, ResonanceOfCC(value)),
                         !.released = SetVoiceResonances(@, ResonanceOfCC(value))]
          ELSE IF control \in {18, 19, 20, 21}
          THEN [p EXCEPT !.adsr = adsr_control_change(@, control, value)]
          ELSE p
    IN  IF control \in 102..106
        THEN [p1 EXCEPT !.effects[EffectOf(control)] =
                 [wet |-> value, dry |-> IF IsNaN(value) THEN NaN ELSE 127 - value]]
        ELSE p1

\* EventHandler.handle_control_change(control, value): a controller outside its
\* list is handed to Oscillator.set_mix_level as the osc_type.
HandleControlChange(p, control, value) ==
    IF control \in OscMixControls \cup OscDetuneControls \cup {18, 19, 20, 21, 22, 23}
    THEN ControlChange(p, control, value)
    ELSE [p EXCEPT !.oscillator = set_mix_level(@, ToString(control), value)]

\* The calls the model draws, as <<control, value>>: of
\* Synthesizer.control_change, whose value may be any float, and of the MIDI
\* surface, whose value is in 0..127.
DirectCalls == {<<22, NaN>>}

MidiCalls == {<<102, 127>>}

\* A direct call of Synthesizer.control_change: the value is any float.
control_change(control, value) ==
    /\ SetParams(ControlChange(Params, control, value))
    /\ UNCHANGED <<event_queue, dc_block, temp_buffer, outdata, clock, next_id,
                   cb_vars, life_vars, bench_vars>>

\* A control change of the MIDI surface: value in 0..127.
handle_control_change(control, value) ==
    /\ SetParams(HandleControlChange(Params, control, value))
    /\ UNCHANGED <<event_queue, dc_block, temp_buffer, outdata, clock, next_id,
                   cb_vars, life_vars, bench_vars>>

\* --------------------------------------------------- audio callback

\* The sound device calls audio_callback while the stream that
\* Synthesizer.__init__ started has not been stopped and the process lives.
StreamRuns == stream_active /\ ~exited

\* One voice of a callback (the body of the try of _process_active_voices and
\* of _process_released_voices after the is_finished test): generate, the
\* voice's chain (its oscillator module passes the signal on, its filter
\* module filters it), the envelope, the gain and the clip.
ProcessVoice(v, osc, frames) ==
    IF GenerateRaises(osc)
    THEN [raised |-> TRUE, voice |-> v, out |-> Zeros(frames)]
    ELSE LET waveform  == Generate(osc, frames)
             processed == apply_filter(v.filter, waveform)
             r         == ADSR_apply_envelope(v.adsr, frames, FALSE, FALSE)
         IN  [raised |-> FALSE,
              voice  |-> [v EXCEPT !.adsr = r.adsr],
              out    |-> [i \in 1..frames |-> ClipUnit(MulLevel(processed[i], r.envelope[i]))]]

\* np.add(buffer, contribution, out = buffer)
AddBuffers(buffer, out) == [i \in DOMAIN buffer |-> AddClass(buffer[i], out[i])]

\* _process_active_voices: a voice that raises adds nothing and is left as it was.
RECURSIVE ProcessActive(_, _, _, _, _)
ProcessActive(av, i, buffer, osc, frames) ==
    IF i > Len(av) THEN [voices |-> av, buffer |-> buffer]
    ELSE LET r == ProcessVoice(av[i].val, osc, frames)
         IN  ProcessActive([av EXCEPT ![i].val = r.voice], i + 1,
                           IF r.raised THEN buffer ELSE AddBuffers(buffer, r.out),
                           osc, frames)

\* What the except branch of _process_released_voices adds to released_done.
DoneOnError(note) == {note}

\* The loop of _process_released_voices: a finished voice is put on
\* released_done and skipped; so is a voice whose processing raises.
RECURSIVE ProcessReleased(_, _, _, _, _, _)
ProcessReleased(rv, i, buffer, done, osc, frames) ==
    IF i > Len(rv) THEN [voices |-> rv, buffer |-> buffer, done |-> done]
    ELSE IF is_finished(rv[i].val)
    THEN ProcessReleased(rv, i + 1, buffer, done \cup {rv[i].key}, osc, frames)
    ELSE LET r == ProcessVoice(rv[i].val, osc, frames)
         IN  IF r.raised
             THEN ProcessReleased(rv, i + 1, buffer, done \cup DoneOnError(rv[i].key),
                                  osc, frames)
             ELSE ProcessReleased([rv EXCEPT ![i].val = r.voice], i + 1,
                                  AddBuffers(buffer, r.out), done, osc, frames)

KeyNotIn(e, done) == e.key \notin done

\* `for note in released_done: self.released_voices.pop(note, None)'
PopDone(rv, done) == SelectSeq(rv, LAMBDA e : KeyNotIn(e, done))

\* DCBlocker.process: output[i] = signal[i] - x1 + R * y1, sample by sample.
RECURSIVE DCBlock(_, _, _, _)
DCBlock(dc, signal, i, output) ==
    IF i > Len(signal) THEN [dc |-> dc, output |-> output]
    ELSE LET y == AddClass(AddClass(signal[i], dc.x1), dc.y1)
         IN  DCBlock([x1 |-> signal[i], y1 |-> y], signal, i + 1, Append(output, y))

\* SafetyLimiter.process: its envelope is at least |signal[i]| once updated, so
\* a finite sample leaves within the threshold 0.95; a NaN compares false and is
\* copied; an infinite sample is multiplied by threshold / inf = 0.
Limit(signal) ==
    [i \in DOMAIN signal |->
        IF signal[i] \in {"nan", "inf"} THEN "nan"
        ELSE IF signal[i] = "zero" THEN "zero" ELSE "unit"]

\* np.any(np.isnan(temp_buffer)) or np.any(np.isinf(temp_buffer))
HasNonFinite_inf_only(buffer) == \E i \in DOMAIN buffer : IsInfClass(buffer[i])

HasNonFinite(buffer) ==
    \E i \in DOMAIN buffer : IsNanClass(buffer[i]) \/ IsInfClass(buffer[i])

\* `if <non-finite>: temp_buffer.fill(0)'
MuteNonFinite_never(buffer) == buffer

MuteNonFinite(buffer) == IF HasNonFinite(buffer) THEN Zeros(Len(buffer)) ELSE buffer

\* np.clip(temp_buffer, -1.0, 1.0, out = outdata[:, 0])
ClipBuffer(buffer) == [i \in DOMAIN buffer |-> ClipUnit(buffer[i])]

\* What audio_callback passes temp_buffer through, in order: the two voice
\* loops, dc_block.process and safety_limiter.process when there is a voice,
\* then the final np.clip.
CallbackStages(silent) ==
    IF silent THEN <<"clip">>
    ELSE <<"voices", "dc_block", "safety_limiter", "clip">>

\* `if self.active_voices or self.released_voices' is false.
NoVoices == Len(active_voices) = 0 /\ Len(released_voices) = 0

\* Synthesizer.audio_callback(outdata, frames, ...) with frames = buffer_size.
\* a, r and d are what _process_active_voices, _process_released_voices and
\* dc_block.process leave; mixed is temp_buffer after the limiter.
audio_callback ==
    /\ StreamRuns
    /\ \E a \in {ProcessActive(active_voices, 1, Zeros(buffer_size), oscillator,
                               buffer_size)} :
       \E r \in {ProcessReleased(released_voices, 1, a.buffer, {}, oscillator,
                                 buffer_size)} :
       \E d \in {DCBlock(dc_block, r.buffer, 1, << >>)} :
       \E mixed \in {IF NoVoices THEN Zeros(buffer_size) ELSE Limit(d.output)} :
           /\ active_voices' = a.voices
           /\ released_voices' = PopDone(r.voices, r.done)
           /\ dc_block' = IF NoVoices THEN dc_block ELSE d.dc
           /\ temp_buffer' = mixed
           /\ outdata' = ClipBuffer(MuteNonFinite(mixed))
           /\ cb_stages' = CallbackStages(NoVoices)
           /\ UNCHANGED <<event_queue, oscillator, filter, adsr, effects, clock, next_id,
                          cb_pc, cb_i, cb_buffer, cb_done, cb_seen, cb_snapshot,
                          cb_len, life_vars, bench_vars>>

\* ------------------------------------------- the filter, as a unit

\* The coefficients are in 100000ths, the resonance in thousandths.

\* _max_coefficient_change
MaxCoefficientChange == 10000

\* 1 / (1.0 - _coefficient_smooth)
SmoothDivisor == 100

\* The calls made on the unit are counted up to this number.
MaxUpdates == 4

\* The cutoffs and resonances the unit is set to.
LpCutoffs == {20, 22050}

LpResonances == {100, 10000}

\* new_a1, new_b0 and new_b1 of _update_coefficients for the cutoffs and
\* resonances of the unit: w0 = 2 pi clip(cutoff, 20, 21000) / 44100,
\* alpha = sin(w0) / (2 resonance), a0 = 1 + alpha, a1 = -2 cos(w0) / a0,
\* b0 = (1 - cos(w0)) / 2 / a0, b1 = (1 - cos(w0)) / a0.
TargetCoefficients(cutoff, resonance) ==
    CASE cutoff = 20 /\ resonance = 100 -> [a1 |-> 0 - 197190, b0 |-> 0, b1 |-> 0]
      [] cutoff = 20 /\ resonance = 500 -> [a1 |-> 0 - 199431, b0 |-> 0, b1 |-> 0]
      [] cutoff = 20 /\ resonance = 10000 -> [a1 |-> 0 - 199971, b0 |-> 0, b1 |-> 0]
      [] cutoff = 1000 /\ resonance = 100 -> [a1 |-> 0 - 115776, b0 |-> 296, b1 |-> 593]
      [] cutoff = 1000 /\ resonance = 500 -> [a1 |-> 0 - 173358, b0 |-> 444, b1 |-> 887]
      [] cutoff = 1000 /\ resonance = 10000 -> [a1 |-> 0 - 196578, b0 |-> 503, b1 |-> 1006]
      [] cutoff = 22050 /\ resonance = 100 -> [a1 |-> 113319, b0 |-> 56980, b1 |-> 113959]
      [] cutoff = 22050 /\ resonance = 500 -> [a1 |-> 172114, b0 |-> 86543, b1 |-> 173086]
      [] cutoff = 22050 /\ resonance = 10000 -> [a1 |-> 196303, b0 |-> 98706, b1 |-> 197412]

Abs(x) == IF x < 0 THEN 0 - x ELSE x

\* np.sign
Sign(x) == IF x < 0 THEN 0 - 1 ELSE IF x > 0 THEN 1 ELSE 0

\* LowPassFilter._smooth_parameter: the change, limited to
\* _max_coefficient_change, times (1.0 - _coefficient_smooth).
SmoothParameter(old_value, new_value) ==
    LET change  == new_value - old_value
        limited == IF Abs(change) > MaxCoefficientChange
                   THEN Sign(change) * MaxCoefficientChange ELSE change
    IN  old_value + Sign(limited) * (Abs(limited) \div SmoothDivisor)

\* LowPassFilter._update_coefficients on numbers: the new coefficients are
\* smoothed from the old ones when _prev_cutoff is not None, and taken as
\* they are when it is None.
LpUpdateCoefficients(f) ==
    LET new == TargetCoefficients(f.cutoff_freq, f.resonance)
    IN  IF f.has_prev
        THEN [f EXCEPT !.a1 = SmoothParameter(f.a1, new.a1),
                       !.b0 = SmoothParameter(f.b0, new.b0),
                       !.b1 = SmoothParameter(f.b1, new.b1)]
        ELSE [f EXCEPT !.a1 = new.a1, !.b0 = new.b0, !.b1 = new.b1,
                       !.has_prev = TRUE]

\* LowPassFilter.__init__: has_prev is `_prev_cutoff is not None'.
LpFilter_new ==
    LpUpdateCoefficients([cutoff_freq |-> 1000, resonance |-> 500,
                          a1 |-> 0, b0 |-> 0, b1 |-> 0, has_prev |-> FALSE])

\* LowPassFilter.reset
LpReset(f) == [f EXCEPT !.a1 = 0, !.b0 = 50000, !.b1 = 50000, !.has_prev = FALSE]

\* The filter unit as the constructor leaves it.
LpIdle ==
    /\ lp_filter = LpFilter_new
    /\ lp_updates = 0

lp_set_cutoff_freq(value) ==
    /\ lp_updates < MaxUpdates
    /\ lp_filter' = LpUpdateCoefficients([lp_filter EXCEPT !.cutoff_freq = value])
    /\ lp_updates' = lp_updates + 1
    /\ UNCHANGED <<engine_vars, cb_vars, life_vars, unit_vars, fx_vars, delay_vars,
                   chain_vars, lock_vars, cursor_vars>>

lp_set_resonance(value) ==
    /\ lp_updates < MaxUpdates
    /\ lp_filter' = LpUpdateCoefficients([lp_filter EXCEPT !.resonance = value])
    /\ lp_updates' = lp_updates + 1
    /\ UNCHANGED <<engine_vars, cb_vars, life_vars, unit_vars, fx_vars, delay_vars,
                   chain_vars, lock_vars, cursor_vars>>

lp_reset ==
    /\ lp_updates < MaxUpdates
    /\ lp_filter' = LpReset(lp_filter)
    /\ lp_updates' = lp_updates + 1
    /\ UNCHANGED <<engine_vars, cb_vars, life_vars, unit_vars, fx_vars, delay_vars,
                   chain_vars, lock_vars, cursor_vars>>

LpNext ==
    \/ \E value \in LpCutoffs : lp_set_cutoff_freq(value)
    \/ \E value \in LpResonances : lp_set_resonance(value)
    \/ lp_reset

\* -------------------------------------------- the locks, as a unit
(***************************************************************************)
(* The two threads and the two locks of Synthesizer, with the body of each *)
(* handler reduced to what decides a lock: a `with' statement waits until  *)
(* the lock is free, takes it, and gives it back when its block is left;   *)
(* threading.Lock is not reentrant.                                        *)
(***************************************************************************)

Threads == {"control", "audio"}

Locks == {"voice_lock", "param_lock"}

\* The handlers the control thread calls are counted up to this number.
MaxLockOps == 4

\* The locks a call of note_off takes, with voice_lock among them.
NoteOffLocks_voice == {"voice_lock"}

\* The locks a call of Synthesizer.note_off takes: it has no `with'.
NoteOffLocks == {}

\* The lock each `with' position waits for.
LockWanted(pc) ==
    CASE pc = "note_on:with" -> {"voice_lock"}
      [] pc = "control_change:with" -> {"param_lock"}
      [] pc = "callback:with" -> {"voice_lock"}
      [] pc \in {"note_off", "note_on:note_off"} -> NoteOffLocks
      [] OTHER -> {}

\* The thread can take every lock its position waits for.
CanEnter(t) == \A l \in LockWanted(lk_pc[t]) : lk_owner[l] = "free"

Take(t, locks) == [l \in Locks |-> IF l \in locks THEN t ELSE lk_owner[l]]

Give(t, locks) == [l \in Locks |-> IF l \in locks THEN "free" ELSE lk_owner[l]]

LockIdle ==
    /\ lk_owner = [l \in Locks |-> "free"]
    /\ lk_pc = [t \in Threads |-> "idle"]
    /\ lk_voices = 0
    /\ lk_ops = 0

\* The control thread calls note_on, note_off or control_change.
lk_call(handler) ==
    /\ lk_pc["control"] = "idle"
    /\ lk_ops < MaxLockOps
    /\ lk_ops' = lk_ops + 1
    /\ lk_pc' = [lk_pc EXCEPT !["control"] =
                    CASE handler = "note_on" -> "note_on:with"
                      [] handler = "note_off" -> "note_off"
                      [] handler = "control_change" -> "control_change:with"]
    /\ UNCHANGED <<lk_owner, lk_voices>>
    /\ UNCHANGED <<engine_vars, cb_vars, life_vars, unit_vars, fx_vars, delay_vars,
                   chain_vars, lp_vars, cursor_vars>>

\* note_on: `with self.voice_lock:' and the test len(active_voices) >= max_voices.
lk_note_on_with ==
    /\ lk_pc["control"] = "note_on:with"
    /\ CanEnter("control")
    /\ lk_owner' = Take("control", {"voice_lock"})
    /\ lk_pc' = [lk_pc EXCEPT !["control"] =
                    IF lk_voices >= max_voices THEN "note_on:note_off"
                    ELSE "note_on:insert"]
    /\ UNCHANGED <<lk_voices, lk_ops>>
    /\ UNCHANGED <<engine_vars, cb_vars, life_vars, unit_vars, fx_vars, delay_vars,
                   chain_vars, lp_vars, cursor_vars>>

\* note_on: self.note_off(oldest_note), inside the with block.
lk_note_on_note_off ==
    /\ lk_pc["control"] = "note_on:note_off"
    /\ CanEnter("control")
    /\ lk_voices' = lk_voices - 1
    /\ lk_pc' = [lk_pc EXCEPT !["control"] = "note_on:insert"]
    /\ UNCHANGED <<lk_owner, lk_ops>>
    /\ UNCHANGED <<engine_vars, cb_vars, life_vars, unit_vars, fx_vars, delay_vars,
                   chain_vars, lp_vars, cursor_vars>>

\* note_on: the new voice is put in active_voices and the with block is left.
lk_note_on_insert ==
    /\ lk_pc["control"] = "note_on:insert"
    /\ lk_voices' = lk_voices + 1
    /\ lk_owner' = Give("control", {"voice_lock"})
    /\ lk_pc' = [lk_pc EXCEPT !["control"] = "idle"]
    /\ UNCHANGED lk_ops
    /\ UNCHANGED <<engine_vars, cb_vars, life_vars, unit_vars, fx_vars, delay_vars,
                   chain_vars, lp_vars, cursor_vars>>

\* note_off, called by the control thread: the note is active or it is not.
lk_note_off ==
    /\ lk_pc["control"] = "note_off"
    /\ CanEnter("control")
    /\ \E found \in {lk_voices > 0, FALSE} :
          lk_voices' = IF found THEN lk_voices - 1 ELSE lk_voices
    /\ lk_pc' = [lk_pc EXCEPT !["control"] = "idle"]
    /\ UNCHANGED <<lk_owner, lk_ops>>
    /\ UNCHANGED <<engine_vars, cb_vars, life_vars, unit_vars, fx_vars, delay_vars,
                   chain_vars, lp_vars, cursor_vars>>

\* control_change: `with self.param_lock:'
lk_control_change_with ==
    /\ lk_pc["control"] = "control_change:with"
    /\ CanEnter("control")
    /\ lk_owner' = Take("control", {"param_lock"})
    /\ lk_pc' = [lk_pc EXCEPT !["control"] = "control_change:body"]
    /\ UNCHANGED <<lk_voices, lk_ops>>
    /\ UNCHANGED <<engine_vars, cb_vars, life_vars, unit_vars, fx_vars, delay_vars,
                   chain_vars, lp_vars, cursor_vars>>

\* control_change: the body of the with block, to its end.
lk_control_change_body ==
    /\ lk_pc["control"] = "control_change:body"
    /\ lk_owner' = Give("control", {"param_lock"})
    /\ lk_pc' = [lk_pc EXCEPT !["control"] = "idle"]
    /\ UNCHANGED <<lk_voices, lk_ops>>
    /\ UNCHANGED <<engine_vars, cb_vars, life_vars, unit_vars, fx_vars, delay_vars,
                   chain_vars, lp_vars, cursor_vars>>

\* The sound device calls audio_callback.
lk_callback ==
    /\ lk_pc["audio"] = "idle"
    /\ lk_pc' = [lk_pc EXCEPT !["audio"] = "callback:with"]
    /\ UNCHANGED <<lk_owner, lk_voices, lk_ops>>
    /\ UNCHANGED <<engine_vars, cb_vars, life_vars, unit_vars, fx_vars, delay_vars,
                   chain_vars, lp_vars, cursor_vars>>

\* audio_callback: `with self.voice_lock:'
lk_callback_with ==
    /\ lk_pc["audio"] = "callback:with"
    /\ CanEnter("audio")
    /\ lk_owner' = Take("audio", {"voice_lock"})
    /\ lk_pc' = [lk_pc EXCEPT !["audio"] = "callback:voices"]
    /\ UNCHANGED <<lk_voices, lk_ops>>
    /\ UNCHANGED <<engine_vars, cb_vars, life_vars, unit_vars, fx_vars, delay_vars,
                   chain_vars, lp_vars, cursor_vars>>

\* audio_callback: the body of the with block and the rest of the callback;
\* an exception leaves the with block as well.
lk_callback_voices ==
    /\ lk_pc["audio"] = "callback:voices"
    /\ lk_owner' = Give("audio", {"voice_lock"})
    /\ lk_pc' = [lk_pc EXCEPT !["audio"] = "idle"]
    /\ UNCHANGED <<lk_voices, lk_ops>>
    /\ UNCHANGED <<engine_vars, cb_vars, life_vars, unit_vars, fx_vars, delay_vars,
                   chain_vars, lp_vars, cursor_vars>>



LockHandlers == {"note_on", "note_off", "control_change"}

\* The steps of the control thread and of the audio thread.
ControlThread ==
    \/ \E handler \in LockHandlers : lk_call(handler)
    \/ lk_note_on_with
    \/ lk_note_on_note_off
    \/ lk_note_on_insert
    \/ lk_note_off
    \/ lk_control_change_with
    \/ lk_control_change_body

AudioThread ==
    \/ lk_callback
    \/ lk_callback_with
    \/ lk_callback_voices

LockNext ==
    \/ \E handler \in LockHandlers : lk_call(handler)
    \/ lk_note_on_with
    \/ lk_note_on_note_off
    \/ lk_note_on_insert
    \/ lk_note_off
    \/ lk_control_change_with
    \/ lk_control_change_body
    \/ lk_callback
    \/ lk_callback_with
    \/ lk_callback_voices

\* ------------------------------- the cursors of the effects, as a unit
(***************************************************************************)
(* Reverb, Flanger and Chorus with the cursors of their delay lines.  The  *)
(* samples the lines hold decide no cursor and are left out; the           *)
(* modulated delay, a function of a phase, is any value of its range.      *)
(***************************************************************************)

\* len(self._buffer) of Flanger and of each buffer of Chorus (4410).
line_size == 3

\* The largest mod_delay: int(depth * (sin(...) + 1) * 100) is below the
\* length of the buffer.
MaxModDelay == 2

\* The lengths of Reverb's delay lines (eight primes from 1553 to 1601).
ReverbLengths == <<2, 3>>

\* Chorus.voices
ChorusVoices == 1..2

\* len(signal) of a call.
SignalLengths == 0..(buffer_size + 1)

\* The read position without the modulo.
ModulatedReadPos_nowrap(pos, mod_delay) == pos - mod_delay

\* read_pos = (pos - mod_delay) % len(buffer), of Flanger and of Chorus
ModulatedReadPos(pos, mod_delay) == (pos - mod_delay) % line_size

\* The loop of Reverb._process_effect over the delay lines, from line i on:
\* each line is read at its index, written there with signal[0] and its
\* index moved on by one.  With an empty signal signal[0] raises IndexError at
\* the first line, before any index has moved.
RECURSIVE ReverbLoop(_, _, _, _)
ReverbLoop(indexes, i, len, reads) ==
    IF i > Len(indexes) \/ len = 0
    THEN [indexes |-> indexes,
          reads |-> IF len = 0 THEN {indexes[1]} ELSE reads]
    ELSE ReverbLoop([indexes EXCEPT ![i] = (indexes[i] + 1) % ReverbLengths[i]],
                    i + 1, len, reads \cup {indexes[i]})

\* The loop over the samples of Flanger._process_effect, and of one voice
\* of Chorus._process_effect, from sample i on.
RECURSIVE SampleLoop(_, _, _, _)
SampleLoop(pos, i, len, reads) ==
    IF i > len THEN [pos |-> pos, reads |-> reads]
    ELSE SampleLoop((pos + 1) % line_size, i + 1, len,
                    reads \cup {ModulatedReadPos(pos, d) : d \in 0..MaxModDelay})

\* The cursors as the constructors leave them.
CursorIdle ==
    /\ cu_reverb = [i \in DOMAIN ReverbLengths |-> 0]
    /\ cu_flanger = 0
    /\ cu_chorus = [v \in ChorusVoices |-> 0]
    /\ cu_reads = {}
    /\ cu_last = [effect |-> "none", len |-> 0]

\* Reverb._process_effect(signal)
cu_reverb_process(len) ==
    /\ \E r \in {ReverbLoop(cu_reverb, 1, len, {})} :
          /\ cu_reverb' = r.indexes
          /\ cu_reads' = r.reads
    /\ cu_last' = [effect |-> "reverb", len |-> len]
    /\ UNCHANGED <<cu_flanger, cu_chorus, dl_buffer, dl_write_pos, dl_in, dl_out>>
    /\ UNCHANGED <<engine_vars, cb_vars, life_vars, unit_vars, fx_vars, chain_vars,
                   lp_vars, lock_vars>>

\* Flanger._process_effect(signal)
cu_flanger_process(len) ==
    /\ \E r \in {SampleLoop(cu_flanger, 1, len, {})} :
          /\ cu_flanger' = r.pos
          /\ cu_reads' = r.reads
    /\ cu_last' = [effect |-> "flanger", len |-> len]
    /\ UNCHANGED <<cu_reverb, cu_chorus, dl_buffer, dl_write_pos, dl_in, dl_out>>
    /\ UNCHANGED <<engine_vars, cb_vars, life_vars, unit_vars, fx_vars, chain_vars,
                   lp_vars, lock_vars>>

\* Chorus._process_effect(signal): the loop over the samples for each voice,
\* whose position is stored when its loop has ended.
cu_chorus_process(len) ==
    /\ cu_chorus' = [v \in ChorusVoices |-> SampleLoop(cu_chorus[v], 1, len, {}).pos]
    /\ cu_reads' = UNION {SampleLoop(cu_chorus[v], 1, len, {}).reads : v \in ChorusVoices}
    /\ cu_last' = [effect |-> "chorus", len |-> len]
    /\ UNCHANGED <<cu_reverb, cu_flanger, dl_buffer, dl_write_pos, dl_in, dl_out>>
    /\ UNCHANGED <<engine_vars, cb_vars, life_vars, unit_vars, fx_vars, chain_vars,
                   lp_vars, lock_vars>>

\* The Delay unit as Delay.__init__ leaves it.
DelayIdle ==
    /\ dl_buffer = [i \in 1..delay_buffer_size |-> 0]
    /\ dl_write_pos = 0
    /\ dl_in = << >>
    /\ dl_out = << >>

\* The chain unit as AudioChainHandler.__init__ leaves it.
ChainIdle ==
    /\ ch_chain = << >>
    /\ ch_raising = {}
    /\ ch_out = << >>

\* The Effect unit before it is used.
FxIdle ==
    /\ fx_signal = << >>
    /\ fx_wet_signal = << >>
    /\ fx_wet = 127
    /\ fx_dry = 0
    /\ fx_out = << >>
    /\ fx_enabled = TRUE
    /\ fx_bypass = FALSE

Init ==
    /\ EngineInit
    /\ FxIdle
    /\ DelayIdle
    /\ ChainIdle
    /\ LpIdle
    /\ LockIdle
    /\ CursorIdle
    /\ u_adsr = ADSR_default
    /\ u_value = 0
    /\ u_envelope = << >>
    /\ u_last = "none"
    /\ u_from = "none"
    /\ u_elapsed = 0

\* The engine driven through its MIDI surface.
Next ==
    \/ \E note \in Notes : note_on(note)
    \/ \E note \in Notes : note_off(note)
    \/ \E c \in MidiCalls : handle_control_change(c[1], c[2])
    \/ audio_callback

Spec == Init /\ [][Next]_vars

\* The engine driven through its methods, control_change with any float.
NextDirect ==
    \/ \E note \in Notes : note_on(note)
    \/ \E note \in Notes : note_off(note)
    \/ \E c \in DirectCalls : control_change(c[1], c[2])
    \/ \E c \in MidiCalls : handle_control_change(c[1], c[2])
    \/ audio_callback

SpecDirect == Init /\ [][NextDirect]_vars

\* The control changes of the filter and of the ADSR defaults.
ControlCalls == {<<22, 0>>, <<22, 127>>, <<23, 64>>, <<18, 127>>}

\* The control thread between two callbacks of the audio thread: the note
\* events and the filter and ADSR controllers. (audio_callback writes no
\* filter parameter and no ADSR default.)
NextControls ==
    \/ \E note \in Notes : note_on(note)
    \/ \E note \in Notes : note_off(note)
    \/ \E c \in ControlCalls : control_change(c[1], c[2])

SpecControls == Init /\ [][NextControls]_vars

\* The sound device calls audio_callback once per buffer period, for ever.
FairSpec == Spec /\ WF_vars(audio_callback)

\* ------------------------------------- audio callback, step by step
(***************************************************************************)
(* The audio thread runs audio_callback while the control thread runs its  *)
(* handlers.  The callback holds voice_lock from its test for voices to    *)
(* the end of safety_limiter.process, and never takes param_lock; here it  *)
(* advances by one voice per step, so that a handler of the control        *)
(* thread can run between two voices.                                      *)
(***************************************************************************)

\* The position in a dict of the Voice object with this id (0: it is not there).
IndexOfId(d, id) ==
    IF \E i \in DOMAIN d : d[i].val.id = id
    THEN CHOOSE i \in DOMAIN d : d[i].val.id = id
    ELSE 0

\* list(self.active_voices.values()): the Voice objects, in the order of the dict.
SnapshotOf(d) == [i \in DOMAIN d |-> d[i].val.id]

\* The callback is inside `with self.voice_lock:'.
VoiceLockHeld == cb_pc \in {"active", "released", "mix"}

\* audio_callback up to `with self.voice_lock: if self.active_voices or ...'
\* and the list(...) that _process_active_voices iterates over.
cb_begin ==
    /\ StreamRuns
    /\ cb_pc = "idle"
    /\ cb_pc' = IF NoVoices THEN "clip" ELSE "active"
    /\ cb_i' = 1
    /\ cb_buffer' = Zeros(buffer_size)
    /\ cb_done' = {}
    /\ cb_seen' = {}
    /\ cb_snapshot' = SnapshotOf(active_voices)
    /\ cb_len' = 0
    /\ UNCHANGED <<engine_vars, cb_stages, life_vars, bench_vars>>

\* One turn of the loop of _process_active_voices, or its end, where the
\* iteration over released_voices.items() begins.  The loop is over the list
\* made at its start: a voice that a note_off has moved to released_voices
\* since is still processed.
cb_active_voice ==
    /\ cb_pc = "active"
    /\ IF cb_i > Len(cb_snapshot)
       THEN /\ cb_pc' = "released"
            /\ cb_i' = 1
            /\ cb_len' = Len(released_voices)
            /\ UNCHANGED <<active_voices, released_voices, cb_buffer, cb_seen>>
       ELSE \E ia \in {IndexOfId(active_voices, cb_snapshot[cb_i])} :
            \E ir \in {IndexOfId(released_voices, cb_snapshot[cb_i])} :
            \E r \in {ProcessVoice(IF ia > 0 THEN active_voices[ia].val
                                             ELSE released_voices[ir].val,
                                   oscillator, buffer_size)} :
            /\ active_voices' = IF ia > 0
                                THEN [active_voices EXCEPT ![ia].val = r.voice]
                                ELSE active_voices
            /\ released_voices' = IF ia = 0
                                  THEN [released_voices EXCEPT ![ir].val = r.voice]
                                  ELSE released_voices
            /\ cb_buffer' = IF r.raised THEN cb_buffer ELSE AddBuffers(cb_buffer, r.out)
            /\ cb_seen' = cb_seen \cup {oscillator}
            /\ cb_i' = cb_i + 1
            /\ UNCHANGED <<cb_pc, cb_len>>
    /\ UNCHANGED <<event_queue, oscillator, filter, adsr, effects,
                   dc_block, temp_buffer, outdata, clock, next_id, cb_stages, cb_done,
                   cb_snapshot, life_vars, bench_vars>>

\* One turn of the first loop of _process_released_voices, or its end.  The
\* loop is over the dict itself: when its size is no longer what it was when
\* the iteration began, the next step of the iterator raises RuntimeError,
\* outside the try of the loop body.
cb_released_voice ==
    /\ cb_pc = "released"
    /\ IF Len(released_voices) # cb_len
       THEN /\ cb_pc' = "error"
            /\ UNCHANGED <<released_voices, cb_i, cb_buffer, cb_done, cb_seen>>
       ELSE IF cb_i > Len(released_voices)
       THEN /\ cb_pc' = "mix"
            /\ UNCHANGED <<released_voices, cb_i, cb_buffer, cb_done, cb_seen>>
       ELSE IF is_finished(released_voices[cb_i].val)
       THEN /\ cb_done' = cb_done \cup {released_voices[cb_i].key}
            /\ cb_i' = cb_i + 1
            /\ UNCHANGED <<released_voices, cb_pc, cb_buffer, cb_seen>>
       ELSE \E r \in {ProcessVoice(released_voices[cb_i].val, oscillator, buffer_size)} :
            /\ released_voices' = IF r.raised THEN released_voices
                                  ELSE [released_voices EXCEPT ![cb_i].val = r.voice]
            /\ cb_buffer' = IF r.raised THEN cb_buffer ELSE AddBuffers(cb_buffer, r.out)
            /\ cb_done' = IF r.raised
                          THEN cb_done \cup DoneOnError(released_voices[cb_i].key)
                          ELSE cb_done
            /\ cb_seen' = cb_seen \cup {oscillator}
            /\ cb_i' = cb_i + 1
            /\ UNCHANGED cb_pc
    /\ UNCHANGED <<active_voices, event_queue, oscillator, filter, adsr, effects,
                   dc_block, temp_buffer, outdata, clock, next_id, cb_stages,
                   cb_snapshot, cb_len, life_vars, bench_vars>>

\* The except branch of audio_callback: the exception has left the with
\* block, so released_done is not popped and dc_block and safety_limiter
\* have not run; outdata.fill(0).
cb_except ==
    /\ cb_pc = "error"
    /\ outdata' = Zeros(buffer_size)
    /\ cb_stages' = <<"except">>
    /\ cb_pc' = "idle"
    /\ UNCHANGED <<active_voices, released_voices, event_queue, oscillator, filter,
                   adsr, effects, dc_block, temp_buffer, clock, next_id, cb_i,
                   cb_buffer, cb_done, cb_seen, cb_snapshot, cb_len, life_vars,
                   bench_vars>>

\* The rest of audio_callback: the pops of released_done, dc_block and
\* safety_limiter when there was a voice, then the test for NaN and Inf and
\* the clip into outdata.
cb_finish ==
    /\ cb_pc \in {"mix", "clip"}
    /\ \E d \in {DCBlock(dc_block, cb_buffer, 1, << >>)} :
       \E mixed \in {IF cb_pc = "clip" THEN cb_buffer ELSE Limit(d.output)} :
          /\ released_voices' = PopDone(released_voices, cb_done)
          /\ dc_block' = IF cb_pc = "clip" THEN dc_block ELSE d.dc
          /\ temp_buffer' = mixed
          /\ outdata' = ClipBuffer(MuteNonFinite(mixed))
          /\ cb_stages' = CallbackStages(cb_pc = "clip")
    /\ cb_pc' = "idle"
    /\ UNCHANGED <<active_voices, event_queue, oscillator, filter, adsr, effects, clock,
                   next_id, cb_i, cb_buffer, cb_done, cb_seen, cb_snapshot, cb_len,
                   life_vars, bench_vars>>

\* Synthesizer.stop
stop ==
    /\ running' = FALSE
    /\ UNCHANGED <<midi_running, stream_active, exited, engine_vars, cb_vars, bench_vars>>

\* The attributes EventHandler.__init__ sets.
EventHandlerAttributes == {"synthesizer", "adsr"}

\* MIDIHandler._signal_handler of main.py: running = False; the stream is
\* stopped and closed if hasattr(self.event_handler, 'synth'); sys.exit(0),
\* which leaves MIDIHandler.start through its finally (the same test for
\* 'synth') and ends the process.
signal_handler ==
    /\ midi_running' = FALSE
    /\ stream_active' = IF "synth" \in EventHandlerAttributes THEN FALSE ELSE stream_active
    /\ exited' = TRUE
    /\ UNCHANGED <<running, engine_vars, cb_vars, bench_vars>>

\* The control changes of the control thread in this specification.
ThreadCalls == {<<15, 127>>}

\* The two threads.  note_on waits for voice_lock; control_change takes only
\* param_lock, which the callback never holds.  Note events are taken between
\* two callbacks here: what a note_off does to a callback in progress is not
\* the subject of this specification.
NextThreads ==
    \/ \E note \in Notes : cb_pc = "idle" /\ note_on(note)
    \/ \E note \in Notes : cb_pc = "idle" /\ note_off(note)
    \/ \E c \in ThreadCalls : control_change(c[1], c[2])
    \/ cb_begin
    \/ cb_active_voice
    \/ cb_released_voice
    \/ cb_finish

SpecThreads == Init /\ [][NextThreads]_vars

\* The two threads and the shutdown of the engine: the control thread runs
\* while the process lives.
NextShutdown ==
    \/ \E note \in Notes : ~exited /\ cb_pc = "idle" /\ note_on(note)
    \/ \E note \in Notes : ~exited /\ cb_pc = "idle" /\ note_off(note)
    \/ ~exited /\ stop
    \/ ~exited /\ signal_handler
    \/ cb_begin
    \/ ~exited /\ cb_active_voice
    \/ ~exited /\ cb_released_voice
    \/ ~exited /\ cb_finish

SpecShutdown == Init /\ [][NextShutdown]_vars

\* The locks the audio thread holds at its position in audio_callback: its
\* only `with' is the one on voice_lock.
CallbackLocks == IF VoiceLockHeld THEN {"voice_lock"} ELSE {}

\* A note_off of the control thread inside the callback's advance of that
\* very voice's envelope.  note_off takes no lock, so it can run between the
\* test `time_in_state >= duration' of get_next_value and the assignment to
\* current_state that follows it: the voice is moved to released_voices with
\* release_triggered set, and ADSR.note_off's 'release' is then overwritten
\* by the stage the audio thread had decided on, with the time note_off set.
\* The two orders in which the threads do not interleave are the steps
\* note_off and cb_active_voice taken one after the other.
note_off_in_advance ==
    /\ cb_pc = "active"
    /\ cb_i <= Len(cb_snapshot)
    /\ event_queue + 1 <= MaxQueue
    /\ \E ia \in DOMAIN active_voices :
       \E r \in {ProcessVoice(active_voices[ia].val, oscillator, buffer_size)} :
          /\ active_voices[ia].val.id = cb_snapshot[cb_i]
          /\ ~r.raised
          /\ r.voice.adsr.current_state # active_voices[ia].val.adsr.current_state
          /\ active_voices' = Pop(active_voices, active_voices[ia].key)
          /\ released_voices' =
                Put(released_voices, active_voices[ia].key,
                    [r.voice EXCEPT !.release_triggered = TRUE,
                                    !.adsr.time_in_state = 0])
          /\ cb_buffer' = AddBuffers(cb_buffer, r.out)
    /\ event_queue' = event_queue + 1
    /\ cb_seen' = cb_seen \cup {oscillator}
    /\ cb_i' = cb_i + 1
    /\ UNCHANGED <<oscillator, filter, adsr, effects, dc_block, temp_buffer, outdata,
                   clock, next_id, cb_stages, cb_pc, cb_done, cb_snapshot, cb_len,
                   life_vars, bench_vars>>

\* The two threads with the locks each handler takes: note_on waits until the
\* callback has left voice_lock; note_off takes no lock and control_change
\* takes only param_lock, so both run at any point of a callback.
NextRaces ==
    \/ \E note \in Notes : "voice_lock" \notin CallbackLocks /\ note_on(note)
    \/ \E note \in Notes : note_off(note)
    \/ note_off_in_advance
    \/ \E c \in ThreadCalls : control_change(c[1], c[2])
    \/ cb_begin
    \/ cb_active_voice
    \/ cb_released_voice
    \/ cb_except
    \/ cb_finish

SpecRaces == Init /\ [][NextRaces]_vars

\* ------------------------------------------------------ ADSR, as a unit

SustainLevels == {0, (7 * Scale) \div 10, Scale}

UnitInit ==
    /\ \E at \in 1..MaxStage, de \in 1..MaxStage, re \in 1..MaxStage, su \in SustainLevels :
          u_adsr = ADSR_new(at, de, su, re)
    /\ u_value = 0
    /\ u_envelope = << >>
    /\ u_last = "none"
    /\ u_from = "none"
    /\ u_elapsed = 0
    /\ EngineInit
    /\ FxIdle
    /\ DelayIdle
    /\ ChainIdle
    /\ LpIdle
    /\ LockIdle
    /\ CursorIdle

UnitNoteOn ==
    /\ u_adsr' = ADSR_note_on(u_adsr)
    /\ u_last' = "note_on"
    /\ u_from' = u_adsr.current_state
    /\ u_elapsed' = 0
    /\ UNCHANGED <<u_value, u_envelope, engine_vars, cb_vars, life_vars, fx_vars,
                   delay_vars, chain_vars, dsp_vars>>

UnitNoteOff ==
    /\ u_adsr' = ADSR_note_off(u_adsr)
    /\ u_last' = "note_off"
    /\ u_from' = u_adsr.current_state
    /\ u_elapsed' = 0
    /\ UNCHANGED <<u_value, u_envelope, engine_vars, cb_vars, life_vars, fx_vars,
                   delay_vars, chain_vars, dsp_vars>>

UnitApplyEnvelope ==
    \E samples \in 2..MaxSamples :
        LET r == ADSR_apply_envelope(u_adsr, samples, FALSE, FALSE)
        IN  /\ u_adsr' = r.adsr
            /\ u_value' = r.value
            /\ u_envelope' = r.envelope
            /\ u_elapsed' = Elapse(u_elapsed, samples)
            /\ UNCHANGED <<u_last, u_from, engine_vars, cb_vars, life_vars, fx_vars,
                   delay_vars, chain_vars, dsp_vars>>

UnitNext == UnitNoteOn \/ UnitNoteOff \/ UnitApplyEnvelope

SpecADSR == UnitInit /\ [][UnitNext]_vars

\* Stage lengths as set_attack, set_decay and set_release store them, with no
\* test of their sign: below zero, zero and above.
StageLengths == {0 - 1, 0, 2}

\* An envelope whose three stage lengths are drawn from StageLengths.
StagesInit ==
    /\ \E at \in StageLengths, de \in StageLengths, re \in StageLengths,
          su \in SustainLevels :
          u_adsr = ADSR_new(at, de, su, re)
    /\ u_value = 0
    /\ u_envelope = << >>
    /\ u_last = "none"
    /\ u_from = "none"
    /\ u_elapsed = 0
    /\ EngineInit
    /\ FxIdle
    /\ DelayIdle
    /\ ChainIdle
    /\ LpIdle
    /\ LockIdle
    /\ CursorIdle

SpecStages == StagesInit /\ [][UnitNext]_vars

\* The filter unit: its setters and reset, in any order.
SpecFilter == Init /\ [][LpNext]_vars

\* The lock unit.  Each thread runs as long as it can take a step.
SpecLocks == Init /\ [][LockNext]_vars

FairLocks == SpecLocks /\ WF_vars(ControlThread) /\ WF_vars(AudioThread)

\* ------------------------------------------------- the Effect unit

\* The finite samples of the unit, in sample steps, and its buffers of
\* buffer_size samples.
FxSamples == {-1, 1}

FxBuffers == [1..buffer_size -> FxSamples]

\* The wet and dry levels the unit is set to, in 127ths.
FxLevels == {0, 64, 127}

\* The mix with the two levels taken for one another.
EffectMix_swapped(signal, wet_signal, wet, dry) ==
    [i \in DOMAIN signal |-> signal[i] * wet + wet_signal[i] * dry]

\* Effect._process_audio: signal * self.dry + wet_signal * self.wet, on
\* finite samples (the result in 127ths of a sample step).
EffectMix(signal, wet_signal, wet, dry) ==
    [i \in DOMAIN signal |-> signal[i] * dry + wet_signal[i] * wet]

\* AudioModule.process: a disabled or bypassed module returns its input.
EffectProcess(signal, wet_signal, wet, dry, enabled, bypass) ==
    IF ~enabled \/ bypass
    THEN [i \in DOMAIN signal |-> 127 * signal[i]]
    ELSE EffectMix(signal, wet_signal, wet, dry)

\* Effect.set_wet(value)
fx_set_wet(value) ==
    /\ fx_wet' = value
    /\ UNCHANGED <<fx_signal, fx_wet_signal, fx_dry, fx_out, fx_enabled, fx_bypass,
                   engine_vars, cb_vars, life_vars, unit_vars,
                   delay_vars, chain_vars, dsp_vars>>

\* Effect.set_dry(value)
fx_set_dry(value) ==
    /\ fx_dry' = value
    /\ UNCHANGED <<fx_signal, fx_wet_signal, fx_wet, fx_out, fx_enabled, fx_bypass,
                   engine_vars, cb_vars, life_vars, unit_vars,
                   delay_vars, chain_vars, dsp_vars>>

\* toggle_effect / enable_module: module.enabled = enable
fx_enable(enable) ==
    /\ fx_enabled' = enable
    /\ UNCHANGED <<fx_signal, fx_wet_signal, fx_wet, fx_dry, fx_out, fx_bypass,
                   engine_vars, cb_vars, life_vars, unit_vars,
                   delay_vars, chain_vars, dsp_vars>>

\* module.bypass = bypass
fx_set_bypass(bypass) ==
    /\ fx_bypass' = bypass
    /\ UNCHANGED <<fx_signal, fx_wet_signal, fx_wet, fx_dry, fx_out, fx_enabled,
                   engine_vars, cb_vars, life_vars, unit_vars,
                   delay_vars, chain_vars, dsp_vars>>

\* process(signal) of an effect whose _process_effect returns wet_signal for
\* it: any of the five effects, in any state of its delay lines.
fx_process(signal, wet_signal) ==
    /\ fx_signal' = signal
    /\ fx_wet_signal' = wet_signal
    /\ fx_out' = EffectProcess(signal, wet_signal, fx_wet, fx_dry, fx_enabled, fx_bypass)
    /\ UNCHANGED <<fx_wet, fx_dry, fx_enabled, fx_bypass, engine_vars, cb_vars, life_vars, unit_vars,
                   delay_vars, chain_vars, dsp_vars>>

EffectNext ==
    \/ \E value \in FxLevels : fx_set_wet(value)
    \/ \E value \in FxLevels : fx_set_dry(value)
    \/ \E enable \in BOOLEAN : fx_enable(enable)
    \/ \E bypass \in BOOLEAN : fx_set_bypass(bypass)
    \/ \E signal \in FxBuffers, wet_signal \in FxBuffers : fx_process(signal, wet_signal)

SpecEffect == Init /\ [][EffectNext]_vars

\* ------------------------------------------------- the Delay unit

\* Delay.feedback = 0.4, in tenths; the samples _process_effect returns are
\* in tenths of a sample step.
feedback == 4

\* The samples of the stream, in sample steps, and the buffers a stream is
\* given in: of any length from 1 to buffer_size + 1.
DelaySampleValues == {-1, 1, 2}

DelayBuffers == UNION {[1..n -> DelaySampleValues] : n \in 1..(buffer_size + 1)}

\* The read position one sample late.
DelayReadPos_late(write_pos) ==
    (write_pos - delay_samples + 1) % delay_buffer_size

\* read_pos = (self._write_pos - self._delay_samples) % self._buffer_size
DelayReadPos(write_pos) ==
    (write_pos - delay_samples) % delay_buffer_size

\* The loop of Delay._process_effect from sample i of signal on: the sample
\* read from the buffer is added, scaled by feedback, before the input sample
\* is written at write_pos.  (Positions are 0-based as in the code; the
\* sequence buffer holds position p at p + 1.)
RECURSIVE DelayLoop(_, _, _, _, _)
DelayLoop(buffer, write_pos, signal, i, output) ==
    IF i > Len(signal)
    THEN [buffer |-> buffer, write_pos |-> write_pos, output |-> output]
    ELSE DelayLoop([buffer EXCEPT ![write_pos + 1] = signal[i]],
                   (write_pos + 1) % delay_buffer_size,
                   signal, i + 1,
                   Append(output,
                          10 * signal[i] + buffer[DelayReadPos(write_pos) + 1] * feedback))

\* Delay._process_effect(signal)
dl_process_effect(signal) ==
    /\ Len(dl_in) + Len(signal) <= MaxStream
    /\ \E r \in {DelayLoop(dl_buffer, dl_write_pos, signal, 1, << >>)} :
          /\ dl_buffer' = r.buffer
          /\ dl_write_pos' = r.write_pos
          /\ dl_out' = dl_out \o r.output
    /\ dl_in' = dl_in \o signal
    /\ UNCHANGED <<engine_vars, cb_vars, life_vars, unit_vars, fx_vars, chain_vars, dsp_vars>>

DelayNext == \E signal \in DelayBuffers : dl_process_effect(signal)

SpecDelay == Init /\ [][DelayNext]_vars

\* The buffers the Delay is given next to the other effects: of any length
\* from 1 to buffer_size + 1, their samples all the same.
DelayCursorBuffers == {[i \in 1..n |-> 1] : n \in 1..(buffer_size + 1)}

\* The four effects with a delay line, each called with buffers of any length.
CursorNext ==
    \/ \E len \in SignalLengths : cu_reverb_process(len)
    \/ \E len \in SignalLengths : cu_flanger_process(len)
    \/ \E len \in SignalLengths : cu_chorus_process(len)
    \/ \E signal \in DelayCursorBuffers : dl_process_effect(signal)

SpecCursors == Init /\ [][CursorNext]_vars

\* ------------------------------------------------- the chain unit
(***************************************************************************)
(* An AudioChainHandler with modules of the three classes a voice chain    *)
(* is made of.  A buffer is held as the input it was made from followed by *)
(* the names of the modules that have changed it, in order: a FilterModule *)
(* and an ADSRModule change the buffer they are given, an OscillatorModule *)
(* returns it as it is.                                                    *)
(***************************************************************************)

ModuleNames == {"oscillator", "filter", "adsr"}

\* AudioModule.__init__: enabled, not bypassed.
Module_new(name) == [name |-> name, enabled |-> TRUE, bypass |-> FALSE]

\* The buffer a call is given.
ChainInput == <<"signal">>

\* _process_audio of the module's class.
ModuleProcessAudio(module, signal) ==
    IF module.name = "oscillator" THEN signal ELSE Append(signal, module.name)

\* AudioModule.process: a disabled or bypassed module returns its input.
ModuleProcess(module, signal) ==
    IF ~module.enabled \/ module.bypass THEN signal
    ELSE ModuleProcessAudio(module, signal)

\* active_modules = [m for m in self.chain if m.enabled and not m.bypass],
\* as the positions of these modules in the chain.
RECURSIVE ActiveModules(_, _)
ActiveModules(chain, i) ==
    IF i > Len(chain) THEN << >>
    ELSE IF chain[i].enabled /\ ~chain[i].bypass
    THEN <<i>> \o ActiveModules(chain, i + 1)
    ELSE ActiveModules(chain, i + 1)

\* Every module is given the buffer the call was given.
ChainStep_input(module, buffer, signal) == ModuleProcess(module, signal)

\* self._buffer = module.process(self._buffer)
ChainStep(module, buffer, signal) == ModuleProcess(module, buffer)

\* The loop ends at the first module that raises.
AfterRaise_abort(active, k) == Len(active) + 1

\* except Exception: print(...) inside the loop: the loop goes on with the
\* next module.
AfterRaise(active, k) == k + 1

\* `for module in active_modules: try: ... except ...', from the k-th active
\* module on; raising holds the positions whose _process_audio raises.
RECURSIVE ChainLoop(_, _, _, _, _, _)
ChainLoop(chain, active, k, buffer, signal, raising) ==
    IF k > Len(active) THEN buffer
    ELSE IF active[k] \in raising
    THEN ChainLoop(chain, active, AfterRaise(active, k), buffer, signal, raising)
    ELSE ChainLoop(chain, active, k + 1,
                   ChainStep(chain[active[k]], buffer, signal), signal, raising)

\* AudioChainHandler.process_voice(voice, signal)
ProcessVoiceChain(chain, signal, raising) ==
    ChainLoop(chain, ActiveModules(chain, 1), 1, signal, signal, raising)

\* AudioChainHandler.process_audio(signal)
ProcessAudioChain(chain, signal, raising) ==
    IF chain = << >> THEN signal
    ELSE IF ActiveModules(chain, 1) = << >> THEN signal
    ELSE ChainLoop(chain, ActiveModules(chain, 1), 1, signal, signal, raising)

\* The position of the first module of this name (0: there is none).
GetModule(chain, name) ==
    IF \E i \in DOMAIN chain : chain[i].name = name
    THEN CHOOSE i \in DOMAIN chain :
            /\ chain[i].name = name
            /\ \A j \in 1..(i - 1) : chain[j].name # name
    ELSE 0

\* list.insert(position, module), position 0-based.
InsertAt(chain, position, module) ==
    SubSeq(chain, 1, position) \o <<module>> \o SubSeq(chain, position + 1, Len(chain))

NameIsNot(name, module) == module.name # name

\* add_module(module, position): position -1 stands for None.
ch_add_module(name, position) ==
    /\ Len(ch_chain) < MaxChain
    /\ position <= Len(ch_chain)
    /\ ch_chain' = IF position = -1 THEN Append(ch_chain, Module_new(name))
                   ELSE InsertAt(ch_chain, position, Module_new(name))
    /\ UNCHANGED <<ch_raising, ch_out, engine_vars, cb_vars, life_vars, unit_vars,
                   fx_vars, delay_vars, dsp_vars>>

\* remove_module(module_name)
ch_remove_module(name) ==
    /\ ch_chain' = SelectSeq(ch_chain, LAMBDA m : NameIsNot(name, m))
    /\ UNCHANGED <<ch_raising, ch_out, engine_vars, cb_vars, life_vars, unit_vars,
                   fx_vars, delay_vars, dsp_vars>>

\* enable_module(module_name, enable)
ch_enable_module(name, enable) ==
    /\ \E i \in {GetModule(ch_chain, name)} :
          ch_chain' = IF i = 0 THEN ch_chain ELSE [ch_chain EXCEPT ![i].enabled = enable]
    /\ UNCHANGED <<ch_raising, ch_out, engine_vars, cb_vars, life_vars, unit_vars,
                   fx_vars, delay_vars, dsp_vars>>

\* bypass_module(module_name, bypass)
ch_bypass_module(name, bypass) ==
    /\ \E i \in {GetModule(ch_chain, name)} :
          ch_chain' = IF i = 0 THEN ch_chain ELSE [ch_chain EXCEPT ![i].bypass = bypass]
    /\ UNCHANGED <<ch_raising, ch_out, engine_vars, cb_vars, life_vars, unit_vars,
                   fx_vars, delay_vars, dsp_vars>>

\* process_voice(voice, signal), with the modules that raise in this call
ch_process_voice(raising) ==
    /\ ch_raising' = raising
    /\ ch_out' = ProcessVoiceChain(ch_chain, ChainInput, raising)
    /\ UNCHANGED <<ch_chain, engine_vars, cb_vars, life_vars, unit_vars, fx_vars,
                   delay_vars, dsp_vars>>

\* process_audio(signal), with the modules that raise in this call
ch_process_audio(raising) ==
    /\ ch_raising' = raising
    /\ ch_out' = ProcessAudioChain(ch_chain, ChainInput, raising)
    /\ UNCHANGED <<ch_chain, engine_vars, cb_vars, life_vars, unit_vars, fx_vars,
                   delay_vars, dsp_vars>>

ChainNext ==
    \/ \E name \in ModuleNames, position \in -1..MaxChain : ch_add_module(name, position)
    \/ \E name \in ModuleNames : ch_remove_module(name)
    \/ \E name \in ModuleNames, enable \in BOOLEAN : ch_enable_module(name, enable)
    \/ \E name \in ModuleNames, bypass \in BOOLEAN : ch_bypass_module(name, bypass)
    \/ \E raising \in SUBSET (1..MaxChain) : ch_process_voice(raising)
    \/ \E raising \in SUBSET (1..MaxChain) : ch_process_audio(raising)

SpecChain == Init /\ [][ChainNext]_vars

\* ------------------------------------------------- claims on the ADSR

InUnit(x) == 0 <= x /\ x <= Scale

\* C6: with attack, decay, release > 0 and sustain in [0,1], every value
\* get_next_value returns, every gain apply_envelope multiplies into a sample
\* and the stored current_level lie in [0,1], after any sequence of note_on,
\* note_off and buffer advances.
C6_EnvelopeInUnitRange ==
    /\ InUnit(u_value)
    /\ InUnit(u_adsr.current_level)
    /\ \A i \in DOMAIN u_envelope : InUnit(u_envelope[i])

\* A release cut into an attack, advanced over a full-length buffer to a
\* level strictly inside (0,1).
C6_Witness ==
    /\ u_adsr.current_state = "release"
    /\ u_from = "attack"
    /\ Len(u_envelope) = MaxSamples
    /\ 0 < u_value /\ u_value < Scale
    /\ 0 < u_envelope[1] /\ u_envelope[1] < Scale

ADS == {"attack", "decay", "sustain"}

\* C7: from one buffer to the next the envelope level does not fall while
\* the stage is attack (of a note started from off), does not rise while
\* the stage is decay, and does not rise while the stage is release, for a
\* note_off issued from attack, decay or sustain.
C7_MonotoneStages ==
    [][ /\ (u_adsr.current_state = "attack" /\ u_from = "off")
              => u_adsr'.current_level >= u_adsr.current_level
        /\ u_adsr.current_state = "decay"
              => u_adsr'.current_level <= u_adsr.current_level
        /\ (u_adsr.current_state = "release" /\ u_from \in ADS)
              => u_adsr'.current_level <= u_adsr.current_level ]_vars

Ids(d) == {d[i].val.id : i \in DOMAIN d}

\* The voice of identity id, in a dict that holds it.
VoiceOf(d, id) == (CHOOSE e \in {d[i] : i \in DOMAIN d} : e.val.id = id).val

\* C1: after any sequence of note_on, note_off, control_change and audio
\* callbacks, active_voices never holds more than max_voices entries.
C1_ActiveWithinCap == Len(active_voices) <= max_voices

\* The cap is reached again after a note_on at the cap: more voices have been
\* made than the cap allows, the active set is full and a stolen voice (older
\* than every active one) is releasing.
C1_Witness ==
    /\ Len(active_voices) = max_voices
    /\ next_id > max_voices + 1
    /\ \E i \in DOMAIN released_voices :
          /\ released_voices[i].val.release_triggered
          /\ \A j \in DOMAIN active_voices :
                released_voices[i].val.note_on_time < active_voices[j].val.note_on_time

\* C2: note_on(n) with len(active_voices) >= max_voices takes exactly the
\* active voice of the smallest note_on_time out of active_voices and puts it
\* in released_voices with its release triggered; every other active voice
\* is still active afterwards.
C2_StealExactlyOldest ==
    [][ \A n \in Notes :
          (note_on(n) /\ AtCapacity(active_voices)) =>
             LET oldest == Lookup(active_voices, OldestNote(active_voices))
             IN  /\ oldest.id \notin Ids(active_voices')
                 /\ oldest.id \in Ids(released_voices')
                 /\ VoiceOf(released_voices', oldest.id).release_triggered
                 /\ VoiceOf(released_voices', oldest.id).adsr.current_state = "release"
                 /\ \A id \in Ids(active_voices) \ {oldest.id} :
                       id \in Ids(active_voices') ]_vars

\* C3: note_off(n) with n in active_voices takes the voice out of
\* active_voices and puts the same voice in released_voices under key n, with
\* release_triggered true, its envelope in stage release and time_in_state 0,
\* and nothing else of it changed.
C3_NoteOffMovesVoice ==
    [][ \A n \in Notes :
          (note_off(n) /\ HasKey(active_voices, n)) =>
             /\ ~HasKey(active_voices', n)
             /\ HasKey(released_voices', n)
             /\ LET v == Lookup(active_voices, n)
                    w == Lookup(released_voices', n)
                IN  /\ w.release_triggered
                    /\ w.adsr.current_state = "release"
                    /\ w.adsr.time_in_state = 0
                    /\ w = [v EXCEPT !.release_triggered = TRUE,
                                     !.adsr.current_state = "release",
                                     !.adsr.time_in_state = 0] ]_vars

\* A sounding voice has just been released: it is in released_voices, not in
\* active_voices, at the start of its release with a level above 0.
C3_Witness ==
    \E i \in DOMAIN released_voices :
        /\ ~HasKey(active_voices, released_voices[i].key)
        /\ released_voices[i].val.release_triggered
        /\ released_voices[i].val.adsr.current_state = "release"
        /\ released_voices[i].val.adsr.time_in_state = 0
        /\ released_voices[i].val.adsr.current_level > 0

\* Every note_on puts an event on the queue, so at most MaxQueue voices are made.
VoiceIds == 1..MaxQueue

\* C4: with audio callbacks invoked for ever, a voice that note_off has put
\* in released_voices is eventually there with its envelope in stage off (the
\* state in which the next callback removes it).
C4_ReleasedReachesOff ==
    \A id \in VoiceIds :
        (id \in Ids(released_voices))
            ~> (id \in Ids(released_voices) /\ is_finished(VoiceOf(released_voices, id)))

\* ------------------------------------------- claims on the audio callback

\* A sample within [-1, 1]: neither NaN nor infinite.
InRange(x) == x \in {"zero", "unit"}

\* C5: every audio_callback fills the whole output buffer with samples
\* within [-1, 1], whatever the voices and parameters and whatever errors
\* the processing of single voices raised.
C5_OutputInRange ==
    /\ Len(outdata) = buffer_size
    /\ \A i \in DOMAIN outdata : InRange(outdata[i])

\* A callback has run with voices in both sets while the oscillator raised
\* for every voice and the DC blocker's state was NaN: its mixed buffer was
\* not finite.
C5_Witness ==
    /\ GenerateRaises(oscillator)
    /\ Len(active_voices) > 0
    /\ Len(released_voices) > 0
    /\ IsNanClass(dc_block.y1)
    /\ \E i \in DOMAIN temp_buffer : ~InRange(temp_buffer[i])

\* C9: if the mixed buffer of a callback holds a NaN or an infinite sample,
\* every sample of the output buffer of that callback is zero.
C9_NonFiniteMutesBuffer ==
    (\E i \in DOMAIN temp_buffer : temp_buffer[i] \in {"nan", "inf"})
        => \A i \in DOMAIN outdata : outdata[i] = "zero"

\* A callback has mixed a voice whose filter coefficients are NaN: the mixed
\* buffer holds a NaN and the voice is still sounding.
C9_Witness ==
    /\ \E i \in DOMAIN temp_buffer : temp_buffer[i] = "nan"
    /\ \E i \in DOMAIN active_voices :
          /\ active_voices[i].val.filter.coef = "nan"
          /\ active_voices[i].val.adsr.current_state = "sustain"
    /\ ~GenerateRaises(oscillator)

\* C10: a callback removes a voice from released_voices only if the voice's
\* envelope had reached off before the callback, also when processing the
\* voice raises; and it removes no voice from active_voices.
C10_RemovedOnlyWhenOff ==
    [][ audio_callback =>
          /\ \A id \in Ids(released_voices) \ Ids(released_voices') :
                is_finished(VoiceOf(released_voices, id))
          /\ Ids(active_voices) \subseteq Ids(active_voices') ]_vars

\* ------------------------------------------------ claims on the events

\* C11: every audio callback drains event_queue before it synthesizes: when
\* a callback has run, no event put on the queue before it is left there.
C11_CallbackDrainsQueue ==
    [][ audio_callback => event_queue' = 0 ]_vars

C13_OneSettingPerCallback == Cardinality(cb_seen) <= 1

\* ------------------------------------------ claims on the control changes

\* The voices of both dicts.
AllVoices ==
    {active_voices[i].val : i \in DOMAIN active_voices}
        \cup {released_voices[i].val : i \in DOMAIN released_voices}

AllVoicesNext ==
    {active_voices'[i].val : i \in DOMAIN active_voices'}
        \cup {released_voices'[i].val : i \in DOMAIN released_voices'}

\* C14: control_change(22, v) leaves the global filter and the filter of
\* every voice of active_voices and released_voices with one and the same
\* cutoff, 20 Hz for v = 0 and 20000 Hz (the mapped maximum) for v = 127;
\* control_change(23, v) leaves them with one and the same resonance,
\* 0.1 + 9.9 v / 127; neither adds or removes a voice.
C14_FilterChangeReachesVoices ==
    [][ \A c \in ControlCalls :
          control_change(c[1], c[2]) =>
             /\ c[1] = 22 =>
                   /\ c[2] = 0 => filter'.cutoff_freq = 20
                   /\ c[2] = 127 => filter'.cutoff_freq = 20000
                   /\ \A v \in AllVoicesNext :
                         v.filter.cutoff_freq = filter'.cutoff_freq
             /\ c[1] = 23 =>
                   /\ filter'.resonance = 100 + ((9900 * c[2]) \div 127)
                   /\ \A v \in AllVoicesNext :
                         v.filter.resonance = filter'.resonance
             /\ c[1] \in {22, 23} =>
                   /\ Ids(active_voices') = Ids(active_voices)
                   /\ Ids(released_voices') = Ids(released_voices) ]_vars

\* The cutoff has been turned to its maximum and the resonance changed while
\* there were voices in both dicts: all their filters follow.
C14_Witness ==
    /\ filter.cutoff_freq = 20000
    /\ filter.resonance > 500
    /\ Len(active_voices) > 0
    /\ Len(released_voices) > 0
    /\ \A v \in AllVoices :
          /\ v.filter.cutoff_freq = 20000
          /\ v.filter.resonance = filter.resonance

\* C15: a control change 102 (reverb) with value v of the control-event
\* surface sets the wet level of the reverb to v/127 and its dry level to
\* 1 - v/127, and changes no oscillator, filter or envelope parameter.
C15_EffectControlSetsWetDry ==
    [][ \A c \in MidiCalls :
          handle_control_change(c[1], c[2]) =>
             /\ effects'[EffectOf(c[1])] = [wet |-> c[2], dry |-> 127 - c[2]]
             /\ oscillator' = oscillator
             /\ filter' = filter
             /\ adsr' = adsr ]_vars

\* The envelope parameters of an ADSR.
EnvelopeParams(a) == <<a.attack, a.decay, a.sustain, a.release>>

\* C16: control_change(18..21, v) leaves the envelope parameters of every
\* existing voice unchanged, and a voice created by a later note_on has the
\* (changed) attack, decay, sustain and release of the ADSR defaults.
C16_AdsrChangeReachesLaterVoices ==
    [][ /\ \A c \in ControlCalls :
              (c[1] \in 18..21 /\ control_change(c[1], c[2])) =>
                 /\ Ids(active_voices') \cup Ids(released_voices')
                       = Ids(active_voices) \cup Ids(released_voices)
                 /\ \A i \in DOMAIN active_voices :
                       EnvelopeParams(active_voices'[i].val.adsr)
                          = EnvelopeParams(active_voices[i].val.adsr)
                 /\ \A i \in DOMAIN released_voices :
                       EnvelopeParams(released_voices'[i].val.adsr)
                          = EnvelopeParams(released_voices[i].val.adsr)
        /\ \A note \in Notes :
              note_on(note) =>
                 \A v \in AllVoicesNext :
                    v.id = next_id => EnvelopeParams(v.adsr) = EnvelopeParams(adsr) ]_vars

\* ------------------------------------------------ claims on the voices

\* C17: no two voices share a LowPassFilter or an ADSR instance, no voice's
\* filter or envelope is the engine's filter or ADSR object, and the filter
\* module of every voice's chain refers to the voice's own filter.
C17_VoicesOwnFilterAndEnvelope ==
    /\ \A v, w \in AllVoices :
          v.id # w.id => v.filter_obj # w.filter_obj /\ v.adsr_obj # w.adsr_obj
    /\ \A v \in AllVoices :
          /\ v.filter_obj # EngineFilter
          /\ v.adsr_obj # EngineADSR
          /\ v.chain_filter = v.filter_obj

\* More voices at once than max_voices, in both dicts, the released one
\* already processed by a callback.
C17_Witness ==
    /\ Len(active_voices) = max_voices
    /\ Cardinality({v.id : v \in AllVoices}) > max_voices
    /\ \E i \in DOMAIN released_voices : released_voices[i].val.adsr.time_in_state > 0

\* C18: a voice created by note_on starts with the cutoff and the resonance
\* of the engine's filter at that moment.
C18_NewVoiceHasGlobalFilterSettings ==
    [][ \A note \in Notes :
          note_on(note) =>
             \A v \in AllVoicesNext :
                v.id = next_id =>
                   /\ v.filter.cutoff_freq = filter.cutoff_freq
                   /\ v.filter.resonance = filter.resonance ]_vars

\* ------------------------------------------------ claims on the effects

\* C19: a callback with at least one voice passes the summed voice buffer
\* through the global effects chain, then the DC blocker and the limiter,
\* then the final clip, in that order.
C19_EffectsChainBeforeSafety ==
    cb_stages \in {<< >>, <<"clip">>,
                   <<"voices", "effects_chain", "dc_block", "safety_limiter", "clip">>}

C21_DelayedCopyAtExactOffset ==
    /\ Len(dl_out) = Len(dl_in)
    /\ \A k \in 1..Len(dl_in) :
          dl_out[k] = 10 * dl_in[k]
                      + (IF k - 1 >= delay_samples THEN feedback * dl_in[k - delay_samples]
                         ELSE 0)

\* A stream longer than the delay buffer, so that the write position has
\* wrapped, whose last sample differs from the one delay_samples before it.
C21_Witness ==
    /\ Len(dl_in) > delay_buffer_size
    /\ dl_write_pos < Len(dl_in)
    /\ dl_in[Len(dl_in)] # dl_in[Len(dl_in) - delay_samples]
    /\ dl_out[Len(dl_in)] = 10 * dl_in[Len(dl_in)] + feedback * dl_in[Len(dl_in) - delay_samples]

\* ------------------------------------------------ claims on the chain

\* The names of the modules that change the buffer, in chain order: enabled,
\* not bypassed, not raising, and not of the class that returns its input.
RECURSIVE AppliedNames(_, _, _)
AppliedNames(chain, raising, i) ==
    IF i > Len(chain) THEN << >>
    ELSE (IF /\ chain[i].enabled
             /\ ~chain[i].bypass
             /\ i \notin raising
             /\ chain[i].name # "oscillator"
          THEN <<chain[i].name>> ELSE << >>)
         \o AppliedNames(chain, raising, i + 1)

\* A call of process_voice or process_audio in which these modules raise.
ChainCall(raising) == ch_process_voice(raising) \/ ch_process_audio(raising)

\* C22: a call in which no module raises returns the input with exactly the
\* enabled, non-bypassed modules applied to it in chain order, each to the
\* output of the one before; a disabled or bypassed module changes nothing.
C22_EnabledModulesInOrder ==
    [][ (ChainCall(ch_raising') /\ ch_raising' = {}) =>
           ch_out' = ChainInput \o AppliedNames(ch_chain, {}, 1) ]_vars

\* A chain of two enabled modules that change the buffer has processed it.
C22_Witness ==
    /\ Len(ch_chain) >= 2
    /\ \A i \in DOMAIN ch_chain : ch_chain[i].enabled /\ ~ch_chain[i].bypass
    /\ ch_raising = {}
    /\ ch_out = ChainInput \o <<"adsr", "filter">>

\* C23: when a module raises, the buffer keeps the value it had before that
\* module and every later enabled module is still applied to it.
C23_ChainGoesOnAfterRaise ==
    [][ (ChainCall(ch_raising') /\ ch_raising' # {}) =>
           ch_out' = ChainInput \o AppliedNames(ch_chain, ch_raising', 1) ]_vars

\* The first of two enabled modules raised and the second was applied.
C23_Witness ==
    /\ Len(ch_chain) >= 2
    /\ \A i \in DOMAIN ch_chain :
          ch_chain[i].enabled /\ ~ch_chain[i].bypass /\ ch_chain[i].name # "oscillator"
    /\ ch_raising = {1}
    /\ ch_out = <<"signal", ch_chain[2].name>>

\* ------------------------------------------------ claims on shutdown

\* C24: shutdown (Synthesizer.stop, or the signal handler of the MIDI
\* handler) sets running to false and stops the output stream, and no audio
\* callback starts once running is false.
C24_ShutdownStopsStream ==
    [][ /\ (stop \/ signal_handler) => (~running' /\ ~stream_active')
        /\ cb_begin => running ]_vars

\* ------------------------------------------------ claims on the filter

\* C25: no LowPassFilter of the engine ever holds a non-finite coefficient:
\* a recomputation that yields one resets the filter to its stable defaults.
C25_NoNonFiniteCoefficient ==
    /\ filter.coef # "nan"
    /\ \A v \in AllVoices : v.filter.coef # "nan"

\* ------------------------------------------------- claims on the locks

\* A step of the control thread: it leaves the position of the callback alone.
ControlThreadStep == UNCHANGED cb_vars

\* C26: the audio callback reads the oscillator's mix and detune levels and
\* the filter settings only while it holds param_lock.
C26_CallbackReadsUnderParamLock ==
    [][cb_seen' # cb_seen => "param_lock" \in CallbackLocks]_vars

\* C27: while the callback is inside voice_lock, no step of the control
\* thread changes active_voices or released_voices.
C27_VoiceMapsChangeUnderVoiceLock ==
    [][(VoiceLockHeld /\ ControlThreadStep)
          => UNCHANGED <<active_voices, released_voices>>]_vars

\* C28: the callback holds no lock while it runs DSP: the step that processes
\* a voice, and the one that runs dc_block and safety_limiter, hold none.
C28_NoLockDuringDSP ==
    [][(cb_buffer' # cb_buffer \/ dc_block' # dc_block \/ temp_buffer' # temp_buffer)
          /\ ~ControlThreadStep
          => CallbackLocks = {}]_vars

\* ------------------------------------ claims on the envelope's stages

\* The step is a call of ADSR.note_on (note_off; a buffer advance).
IsNoteOnStep == u_adsr' = ADSR_note_on(u_adsr)

IsNoteOffStep == u_adsr' = ADSR_note_off(u_adsr)

IsAdvanceStep ==
    \E samples \in 2..MaxSamples :
        u_adsr' = ADSR_apply_envelope(u_adsr, samples, FALSE, FALSE).adsr

\* C29: an envelope in stage off stays in off with value 0 under buffer
\* advances and note_off calls: only note_on takes it out of off.
C29_OffUntilNoteOn ==
    [][(u_adsr.current_state = "off" /\ ~IsNoteOnStep)
          => (u_adsr'.current_state = "off" /\ u_value' = 0)]_vars

\* The stage changes of the state machine that elapsed time makes.
TimeEdges == {<<"attack", "decay">>, <<"decay", "sustain">>, <<"release", "off">>}

\* C30: the stage changes only to attack on note_on, along attack to decay,
\* decay to sustain and release to off on a buffer advance (one edge per
\* advance), and from attack, decay or sustain to release on note_off.
C30_StageChangesAlongEdges ==
    [][u_adsr'.current_state # u_adsr.current_state
          => \/ IsNoteOnStep /\ u_adsr'.current_state = "attack"
             \/ /\ IsAdvanceStep
                /\ <<u_adsr.current_state, u_adsr'.current_state>> \in TimeEdges
             \/ /\ IsNoteOffStep
                /\ u_adsr.current_state \in {"attack", "decay", "sustain"}
                /\ u_adsr'.current_state = "release"]_vars

\* --------------------------------- claims on the voices of a callback

\* The envelope b is the envelope a after one advance of frames samples: the
\* parameters are a's, the time in the stage has grown by frames, or the stage
\* has ended along one edge (the attack's end sets the time back to 0).
AdvancedOnce(a, b, frames) ==
    /\ <<b.attack, b.decay, b.sustain, b.release>>
          = <<a.attack, a.decay, a.sustain, a.release>>
    /\ a.current_state # "off"
    /\ \/ /\ b.current_state = a.current_state
          /\ b.time_in_state = Min(a.time_in_state + frames, TimeCap)
       \/ /\ <<a.current_state, b.current_state>> = <<"attack", "decay">>
          /\ a.time_in_state + frames >= a.attack
          /\ b.time_in_state = 0
       \/ /\ <<a.current_state, b.current_state>> = <<"decay", "sustain">>
          /\ a.time_in_state + frames >= a.decay
          /\ b.time_in_state = Min(a.time_in_state + frames, TimeCap)
       \/ /\ <<a.current_state, b.current_state>> = <<"release", "off">>
          /\ a.time_in_state + frames >= a.release
          /\ b.time_in_state = Min(a.time_in_state + frames, TimeCap)

\* The voices a callback processes: the active ones and the released ones
\* that are not finished.
ProcessedIds ==
    Ids(active_voices)
       \cup {id \in Ids(released_voices) : ~is_finished(VoiceOf(released_voices, id))}

\* C31: a callback whose oscillator generates advances the envelope of every
\* voice it processes exactly once, by buffer_size samples; the gain ramp of
\* the buffer starts at the level the voice had reached (0 for a new voice)
\* and ends at the newly computed value, which is the voice's new level.
C31_EnvelopeAdvancedOncePerBuffer ==
    [][(audio_callback /\ ~GenerateRaises(oscillator)) =>
          \A id \in ProcessedIds :
             \E v \in {w \in AllVoices : w.id = id} :
             \E r \in {ADSR_apply_envelope(v.adsr, buffer_size, FALSE, FALSE)} :
                /\ \E w \in AllVoicesNext :
                      /\ w.id = id
                      /\ AdvancedOnce(v.adsr, w.adsr, buffer_size)
                      /\ w.adsr.current_level = r.value
                /\ r.envelope[1] = v.adsr.current_level
                /\ r.envelope[buffer_size] = r.value]_vars

\* A callback has taken a voice from the end of its decay, at level 1, to
\* its sustain level: its second buffer with the default envelope.
C31_Witness ==
    \E v \in AllVoices :
       /\ v.adsr.current_state = "sustain"
       /\ v.adsr.time_in_state = buffer_size
       /\ v.adsr.current_level = v.adsr.sustain

\* ------------------------------------- claims on the stage lengths

\* C32: with an attack, decay or release length of zero or below, a buffer
\* advance divides by no zero and completes the stage at once: attack yields
\* 1.0 and goes to decay, decay yields sustain and goes to sustain, release
\* yields 0 and goes to off.
C32_EmptyStageCompletesAtOnce ==
    [][IsAdvanceStep =>
          /\ u_value' # ZeroDivision
          /\ (u_adsr.current_state = "attack" /\ u_adsr.attack <= 0)
                => (u_adsr'.current_state = "decay" /\ u_value' = Scale)
          /\ (u_adsr.current_state = "decay" /\ u_adsr.decay <= 0)
                => (u_adsr'.current_state = "sustain" /\ u_value' = u_adsr.sustain)
          /\ (u_adsr.current_state = "release" /\ u_adsr.release <= 0)
                => (u_adsr'.current_state = "off" /\ u_value' = 0)]_vars

\* An envelope whose attack and decay are both of length zero has gone
\* through them in two advances, and one whose release is has ended.
C32_Witness ==
    /\ u_adsr.attack = 0
    /\ u_adsr.decay = 0
    /\ u_adsr.release < 0
    /\ u_adsr.current_state = "off"
    /\ u_last = "note_off"
    /\ u_from = "sustain"
    /\ u_elapsed > 0

\* ---------------------------------- claims on the filter's smoothing

\* The step is a recomputation of the coefficients by one of the setters.
IsRecomputation == lp_updates' # lp_updates /\ lp_filter'.has_prev

\* The coefficient goes from old to new towards target: by at most
\* MaxCoefficientChange, not away from the target and not past it.
MovesTowards(old, new, target) ==
    /\ Abs(new - old) <= MaxCoefficientChange
    /\ \/ old <= new /\ new <= target
       \/ target <= new /\ new <= old

\* C33: on every recomputation of the coefficients, the first one after a
\* reset included, each of a1, b0 and b1 changes by at most the maximum step
\* and moves neither away from its new target nor past it.
C33_CoefficientsMoveBySteps ==
    [][IsRecomputation =>
          \E new \in {TargetCoefficients(lp_filter'.cutoff_freq, lp_filter'.resonance)} :
             /\ MovesTowards(lp_filter.a1, lp_filter'.a1, new.a1)
             /\ MovesTowards(lp_filter.b0, lp_filter'.b0, new.b0)
             /\ MovesTowards(lp_filter.b1, lp_filter'.b1, new.b1)]_vars

\* ------------------------------------------- claims on deadlocks

\* The locks a thread holds.
HeldBy(t) == {l \in Locks : lk_owner[l] = t}

\* The thread waits for a lock that it holds itself, or that a thread holds
\* which waits in its turn: it waits for ever.
Stuck(t) ==
    \E l \in LockWanted(lk_pc[t]) :
       /\ lk_owner[l] # "free"
       /\ lk_owner[l] = t \/ ~CanEnter(lk_owner[l])

\* C34: no thread ever holds voice_lock and param_lock together, the
\* note_off that note_on calls waits for no lock that note_on holds, no
\* thread waits for ever, and every lock that is taken is given back.
C34_NoDeadlock ==
    /\ [](\A t \in Threads : Cardinality(HeldBy(t)) <= 1 /\ ~Stuck(t))
    /\ \A l \in Locks : (lk_owner[l] # "free") ~> (lk_owner[l] = "free")

\* note_on, at full polyphony, is about to call note_off inside its with
\* block while the callback waits for voice_lock.
C34_Witness ==
    /\ lk_pc["control"] = "note_on:note_off"
    /\ lk_owner["voice_lock"] = "control"
    /\ lk_pc["audio"] = "callback:with"

\* --------------------------------------- claims on the two voice maps

\* C35: every voice in active_voices has release_triggered false and its
\* envelope in attack, decay or sustain; every voice in released_voices has
\* release_triggered true and its envelope in release or off; no Voice
\* object is in both maps.
C35_MapsPartitionVoices ==
    /\ \A i \in DOMAIN active_voices :
          /\ ~active_voices[i].val.release_triggered
          /\ active_voices[i].val.adsr.current_state \in {"attack", "decay", "sustain"}
    /\ \A i \in DOMAIN released_voices :
          /\ released_voices[i].val.release_triggered
          /\ released_voices[i].val.adsr.current_state \in {"release", "off"}
    /\ Ids(active_voices) \cap Ids(released_voices) = {}

\* C36: note_on(n) for a note n that is in active_voices moves the voice
\* that was active for n to released_voices with its release triggered; the
\* new voice for n is the active one.
C36_RetriggerReleasesPrevious ==
    [][\A n \in Notes :
          (note_on(n) /\ HasKey(active_voices, n)) =>
             /\ HasKey(active_voices', n)
             /\ Lookup(active_voices', n).id = next_id
             /\ \E i \in DOMAIN released_voices' :
                   /\ released_voices'[i].val.id = Lookup(active_voices, n).id
                   /\ released_voices'[i].val.release_triggered
                   /\ released_voices'[i].val.adsr.current_state = "release"]_vars

\* C37: a voice that is in released_voices leaves it only when it is
\* finished (its envelope is off), whatever note_on and note_off do to its
\* note in the meantime.
C37_ReleasedStaysUntilOff ==
    [][\A id \in Ids(released_voices) \ Ids(released_voices') :
          is_finished(VoiceOf(released_voices, id))]_vars

\* ------------------------------------- claims on the oscillator's mix

\* C38: after any control events handled by EventHandler, the oscillator's
\* mix table has the four keys sine, saw, triangle and pulse and no other,
\* so that generate finds a detune value for every mix entry.
C38_MixTableHasFourKeys ==
    /\ DOMAIN oscillator.mix_levels = WaveTypes
    /\ ~GenerateRaises(oscillator)

\* ----------------------------------- claims on note_off's frame

\* C39: note_off(n) for a note n that is not in active_voices changes
\* neither map and no voice; it puts one event on event_queue and does
\* nothing else.
C39_NoteOffOfAbsentNote ==
    [][\A n \in Notes :
          (note_off(n) /\ ~HasKey(active_voices, n)) =>
             /\ active_voices' = active_voices
             /\ released_voices' = released_voices
             /\ event_queue' = event_queue + 1
             /\ UNCHANGED <<oscillator, filter, adsr, effects, dc_block, outdata>>]_vars

\* A note_off has been handled for a note that was releasing and not
\* active: the queue holds its event after the note_on's and the first
\* note_off's, and the voice is still releasing.
C39_Witness ==
    /\ active_voices = << >>
    /\ Len(released_voices) = 1
    /\ released_voices[1].val.adsr.current_state = "release"
    /\ next_id = 2
    /\ event_queue = 3

\* --------------------------------- claims on the effects' cursors

\* The positions of a buffer of this length.
PositionsOf(length) == 0..(length - 1)

\* The step is a call of Delay._process_effect, which alone takes a signal in.
IsDelayCall == dl_in' # dl_in

\* The step is a call of this effect's _process_effect.
IsCallOf(effect) == dl_in' = dl_in /\ cu_last'.effect = effect

\* C40: after every call of an effect, with a buffer of any length, every
\* cursor is inside its buffer (Delay's write position and the read position
\* computed from it, Reverb's indexes, Flanger's position, Chorus's positions
\* and the positions the call read at), and each write cursor has moved on
\* by one, modulo the length of its buffer, for each sample written: every
\* sample of the signal for Delay, Flanger and Chorus, and signal[0] alone
\* for each line of Reverb.
C40_CursorsStayInside ==
    [][/\ dl_write_pos' \in PositionsOf(delay_buffer_size)
       /\ DelayReadPos(dl_write_pos') \in PositionsOf(delay_buffer_size)
       /\ \A i \in DOMAIN ReverbLengths : cu_reverb'[i] \in PositionsOf(ReverbLengths[i])
       /\ cu_flanger' \in PositionsOf(line_size)
       /\ \A v \in ChorusVoices : cu_chorus'[v] \in PositionsOf(line_size)
       /\ IsDelayCall =>
             dl_write_pos' = (dl_write_pos + Len(dl_in') - Len(dl_in)) % delay_buffer_size
       /\ IsCallOf("reverb") =>
             /\ \A i \in DOMAIN ReverbLengths :
                   /\ cu_last'.len > 0 =>
                         cu_reverb'[i] = (cu_reverb[i] + 1) % ReverbLengths[i]
                   /\ cu_last'.len = 0 => cu_reverb'[i] = cu_reverb[i]
             /\ \A p \in cu_reads' : \E i \in DOMAIN ReverbLengths :
                   p \in PositionsOf(ReverbLengths[i])
       /\ IsCallOf("flanger") =>
             /\ cu_flanger' = (cu_flanger + cu_last'.len) % line_size
             /\ cu_reads' \subseteq PositionsOf(line_size)
       /\ IsCallOf("chorus") =>
             /\ \A v \in ChorusVoices :
                   cu_chorus'[v] = (cu_chorus[v] + cu_last'.len) % line_size
             /\ cu_reads' \subseteq PositionsOf(line_size)]_vars

\* A call of Flanger has taken its position round the end of the buffer and
\* has read behind the start of it, at the far end.
C40_Witness ==
    /\ cu_last.effect = "flanger"
    /\ cu_last.len > cu_flanger
    /\ line_size - 1 \in cu_reads
    /\ dl_write_pos < Len(dl_in)
    /\ \E i \in DOMAIN ReverbLengths : cu_reverb[i] = ReverbLengths[i] - 1

====
